---- MODULE Spec2Model ----
(***************************************************************************)
(* Routing/handoff workflow of the cardiology multi-agent system.          *)
(*                                                                         *)
(* The model follows the StateGraph version of the code: the routing graph *)
(* of CardiologyWorkflow (src/workflow.py:30-164), the supervisor          *)
(* (src/agents/supervisor.py), the four specialist handlers with their     *)
(* internal sub-graphs (src/agents/*.py) and the in-memory appointment     *)
(* calendar (src/tools/appointment_system.py).                             *)
(*                                                                         *)
(* The session state is the Python dict that every node returns as         *)
(* {**state, ...}; a key a node adds (error, next_action, symptom_analysis,*)
(* ...) is carried to the next node as the source writes it.  Text is      *)
(* abstracted to the features the code tests: the number of emergency and  *)
(* urgent keywords a message contains, the labels and keyword groups of an *)
(* oracle reply.  Scores are kept in tenths (6.5 is 65).  The oracle and   *)
(* the tools called inside a try block either return or raise.             *)
(***************************************************************************)
EXTENDS Integers, Sequences, FiniteSets, TLC

VARIABLES
    node,          \* routing graph: the node to execute next, or "END"
    step,          \* position inside the running handler's sub-graph
    st,            \* the session state (AgentState)
    trace,         \* routing-graph nodes executed so far, in order
    oracle,        \* what the oracle answered to the supervisor in this run
    appointments,  \* AppointmentSystemTool.appointments: date -> list
    result,        \* result of the last AppointmentSystemTool call
    lastOp,        \* the last AppointmentSystemTool call and its arguments
    suspended,     \* the session run of a second request, while it waits
    callers        \* book_appointment calls in progress, one per thread

vars == <<node, step, st, trace, oracle, appointments, result, lastOp,
          suspended, callers>>

None == "None"

\* the variables of concurrent requests, and their value when one request
\* is served alone
concurrency == <<suspended, callers>>

NoRun == [node |-> None]

NoConcurrency ==
    /\ suspended = NoRun
    /\ callers = <<>>

-----------------------------------------------------------------------------
(* Bounds *)

MaxEmergencyKw == 2   \* emergency keywords counted in one text
MaxUrgentKw == 3      \* urgent keywords counted in one text

-----------------------------------------------------------------------------
(* Messages and the session state *)

Msg(role, text, em, ur) == [role |-> role, text |-> text, em |-> em, ur |-> ur]

HumanMessage(em, ur) == Msg("human", "query", em, ur)

\* HumanMessage(content="") : the patient sent an empty text
EmptyMessage == Msg("human", "", 0, 0)

\* a message whose text is fixed by the code and holds no triage keyword
AIMessage(text) == Msg("ai", text, 0, 0)

NoTriageResult ==
    [set |-> FALSE, urgency_level |-> None, severity_score |-> 0,
     emergency_indicators |-> 0]

NoSymptomAnalysis ==
    [set |-> FALSE, severity_level |-> None, severity_score |-> 0,
     emergency_indicators |-> 0]

\* appointment_analysis, availability_check (appointment handler)
NoAnalysis == [set |-> FALSE, preferred_timing |-> None, confidence_level |-> 0]

NoAvailability ==
    [set |-> FALSE, available |-> FALSE, next_slot |-> None,
     appointment_type |-> None]

\* context_analysis (education handler)
NoContext ==
    [set |-> FALSE, urgency_level |-> None, education_focus |-> None,
     priority_level |-> None]

\* session_data and final_clinical_report (clinical docs handler)
NoSessionData == [set |-> FALSE, urgency_level |-> None]

NoReport ==
    [set |-> FALSE, assessment |-> None, impression |-> None, plan |-> None,
     discharge_status |-> None]

Urgencies ==
    {None, "EMERGENCY", "URGENT", "ROUTINE",
     "emergency", "urgent", "moderate", "routine"}

\* process_patient_query: the initial state built for one chat message
initial_state(em, ur) ==
    [messages |-> <<HumanMessage(em, ur)>>,
     session_error |-> None,
     current_agent |-> None,
     next_agent |-> None,
     triage_result |-> NoTriageResult,
     appointment_data |-> None,
     clinical_context |-> None,
     virtual_assistant_context |-> None,
     urgency_level |-> None,
     escalation_needed |-> FALSE,
     appointment_scheduled |-> FALSE,
     requires_human_review |-> FALSE,
     workflow_complete |-> FALSE,
     tools_used |-> <<>>,
     routing_confidence |-> 0,
     \* keys the handlers add to the dict
     error |-> None,
     next_action |-> None,
     symptom_analysis |-> NoSymptomAnalysis,
     combined_risk_score |-> -1,
     appointment_analysis |-> NoAnalysis,
     availability_check |-> NoAvailability,
     booking_result |-> None,
     context_analysis |-> NoContext,
     education_provided |-> None,
     needs_tracking |-> FALSE,
     session_data |-> NoSessionData,
     clinical_assessment |-> None,
     assessment_narrative |-> FALSE,
     treatment_plan_text |-> FALSE,
     discharge_summary |-> None,
     final_clinical_report |-> NoReport]

-----------------------------------------------------------------------------
(* Supervisor *)

AgentNames ==
    {"TRIAGE_AGENT", "APPOINTMENT_AGENT", "VIRTUAL_ASSISTANT", "CLINICAL_DOCS"}

UrgencyNames == {"EMERGENCY", "URGENT", "ROUTINE"}

\* An oracle reply, by what _parse_routing_response reads of it:
\*   isText     FALSE when the reply content is not a string
\*   agent      the label of its last AGENT: line, None without such a line
\*   urgency    the label of its last URGENCY: line, None without one
\*   reasoning  whether it has a REASONING: line, and the triage keywords
\*              (em, ur) its text then carries into the routing message
\*   words      the keyword groups its upper-cased text contains
AgentLabels == AgentNames \cup {None, "BILLING_AGENT", "appointment_agent"}

UrgencyLabels == UrgencyNames \cup {None, "HIGH"}

WordGroups == {"TRIAGE", "APPOINTMENT", "DOCS"}

Replies ==
    { r \in [isText : BOOLEAN, agent : AgentLabels, urgency : UrgencyLabels,
             reasoning : BOOLEAN, em : 0..MaxEmergencyKw, ur : 0..MaxUrgentKw,
             words : SUBSET WordGroups] :
        \* "URGENCY: EMERGENCY" and "URGENCY: URGENT" contain a triage word,
        \* an AGENT: line naming an appointment or docs agent contains
        \* "APPOINTMENT" (resp. nothing for CLINICAL_DOCS)
        /\ r.urgency \in {"EMERGENCY", "URGENT"} => "TRIAGE" \in r.words
        /\ r.agent \in {"APPOINTMENT_AGENT", "appointment_agent"}
              => "APPOINTMENT" \in r.words
        /\ ~r.reasoning => (r.em = 0 /\ r.ur = 0)
        /\ ~r.isText => (r.agent = None /\ r.urgency = None /\ ~r.reasoning
                          /\ r.words = {}) }

default_decision ==
    [agent |-> "VIRTUAL_ASSISTANT", urgency |-> "ROUTINE",
     reasoning |-> "default", em |-> 0, ur |-> 0, confidence |-> 5]

\* a parser without the keyword fallback for unstructured replies
parse_routing_response_no_fallback(r) ==
    IF ~r.isText
    THEN [default_decision EXCEPT !.reasoning = "parsing error"]
    ELSE [agent |-> IF r.agent \in AgentNames THEN r.agent
                    ELSE "VIRTUAL_ASSISTANT",
          urgency |-> IF r.urgency \in UrgencyNames THEN r.urgency
                      ELSE "ROUTINE",
          reasoning |-> IF r.reasoning THEN "oracle" ELSE "default",
          em |-> r.em, ur |-> r.ur,
          confidence |-> IF r.agent \in AgentNames THEN 9 ELSE 5]

\* a parser that takes the labels of the AGENT: and URGENCY: lines as they
\* are
parse_routing_response_unchecked(r) ==
    IF ~r.isText
    THEN [default_decision EXCEPT !.reasoning = "parsing error"]
    ELSE [agent |-> IF r.agent # None THEN r.agent ELSE "VIRTUAL_ASSISTANT",
          urgency |-> IF r.urgency # None THEN r.urgency ELSE "ROUTINE",
          reasoning |-> IF r.reasoning THEN "oracle" ELSE "default",
          em |-> r.em, ur |-> r.ur,
          confidence |-> IF r.agent # None THEN 9 ELSE 5]

\* SupervisorAgent._parse_routing_response
parse_routing_response(r) ==
    IF ~r.isText
    THEN \* response.strip() raises, the except keeps the defaults
         [default_decision EXCEPT !.reasoning = "parsing error"]
    ELSE LET d1 == [agent |-> IF r.agent \in AgentNames THEN r.agent
                              ELSE "VIRTUAL_ASSISTANT",
                    urgency |-> IF r.urgency \in UrgencyNames THEN r.urgency
                                ELSE "ROUTINE",
                    reasoning |-> IF r.reasoning THEN "oracle" ELSE "default",
                    em |-> r.em, ur |-> r.ur,
                    confidence |-> IF r.agent \in AgentNames THEN 9 ELSE 5]
         IN  IF d1.agent = "VIRTUAL_ASSISTANT" /\ d1.confidence = 5
             THEN \* fallback parsing for unstructured responses
                  IF "TRIAGE" \in r.words
                  THEN [d1 EXCEPT !.agent = "TRIAGE_AGENT",
                                  !.urgency = "URGENT", !.confidence = 7]
                  ELSE IF "APPOINTMENT" \in r.words
                  THEN [d1 EXCEPT !.agent = "APPOINTMENT_AGENT",
                                  !.confidence = 7]
                  ELSE IF "DOCS" \in r.words
                  THEN [d1 EXCEPT !.agent = "CLINICAL_DOCS", !.confidence = 7]
                  ELSE d1
             ELSE d1

\* an error result that answers with the error text alone
create_error_response_only_error(s, error_message) ==
    [s EXCEPT !.current_agent = "supervisor",
              !.next_agent = "END",
              !.requires_human_review = TRUE,
              !.messages = <<AIMessage("Supervisor Error")>>,
              !.session_error = error_message]

\* SupervisorAgent._create_error_response
create_error_response(s, error_message) ==
    [s EXCEPT !.current_agent = "supervisor",
              !.next_agent = "END",
              !.requires_human_review = TRUE,
              !.messages = Append(s.messages, AIMessage("Supervisor Error")),
              !.session_error = error_message]

\* SupervisorAgent.__call__; raises tells whether the oracle call fails
SupervisorCall(s, r, raises) ==
    IF s.messages = <<>>
    THEN create_error_response(s, "No messages to process")
    ELSE IF raises
    THEN create_error_response(s, "Routing error")
    ELSE LET routing_decision == parse_routing_response(r)
         IN  [s EXCEPT !.current_agent = "supervisor",
                       !.next_agent = routing_decision.agent,
                       !.urgency_level = routing_decision.urgency,
                       !.routing_confidence = routing_decision.confidence,
                       !.messages = Append(s.messages,
                            Msg("ai", "Routing to " \o routing_decision.agent,
                                routing_decision.em, routing_decision.ur))]

\* CardiologyWorkflow._route_from_supervisor with the edge map of
\* _build_enhanced_workflow ("end" -> END)
route_from_supervisor(s) ==
    IF s.next_agent \in {"triage_agent", "appointment_agent",
                         "virtual_assistant_agent", "clinical_docs_agent"}
    THEN s.next_agent
    ELSE "END"


-----------------------------------------------------------------------------
(* Triage handler: tools, sub-graph nodes and conditional edges *)

Min(a, b) == IF a < b THEN a ELSE b

\* symptom_analysis_tool on a text with em emergency and ur urgent keywords
symptom_analysis_tool(em, ur) ==
    IF em > 0
    THEN [set |-> TRUE, severity_level |-> "emergency",
          severity_score |-> Min(10, 8 + em), emergency_indicators |-> em]
    ELSE IF ur > 1
    THEN [set |-> TRUE, severity_level |-> "urgent",
          severity_score |-> Min(8, 5 + ur), emergency_indicators |-> em]
    ELSE IF ur > 0
    THEN [set |-> TRUE, severity_level |-> "moderate",
          severity_score |-> Min(6, 3 + ur), emergency_indicators |-> em]
    ELSE [set |-> TRUE, severity_level |-> "routine",
          severity_score |-> 2, emergency_indicators |-> em]

\* patient_risk_assessment_tool: risk_score 6.5, in tenths
risk_score == 65

LastMessage(s) == s.messages[Len(s.messages)]

\* Texts the language model can answer the triage prompt with; the code
\* places no constraint on llm_response.content.
LlmAssessments == {"Emergency: call 911 now", "Routine: no cardiac concern"}

\* The triage outcome if the model's text were parsed for the urgency.
analyze_symptoms_node_trusting_llm(s, raises, llm_text) ==
    IF s.messages = <<>> \/ raises
    THEN [s EXCEPT !.error = "Symptom analysis failed",
                   !.next_action = "error"]
    ELSE [s EXCEPT
            !.symptom_analysis =
                IF llm_text = "Emergency: call 911 now"
                THEN symptom_analysis_tool(1, 0)
                ELSE symptom_analysis_tool(0, 0),
            !.clinical_assessment = llm_text,
            !.current_agent = "triage_agent",
            !.tools_used = s.tools_used \o
                              <<"symptom_analysis_tool", "llm_assessment">>,
            !.next_action = "assess_risk",
            !.messages = Append(s.messages, AIMessage("Analyzing symptoms"))]

\* TriageAgent._analyze_symptoms_node; llm_text is llm_response.content
analyze_symptoms_node(s, raises, llm_text) ==
    IF s.messages = <<>>
    THEN [s EXCEPT !.error = "No symptoms to analyze", !.next_action = "error"]
    ELSE IF raises
    THEN [s EXCEPT !.error = "Symptom analysis failed",
                   !.next_action = "error"]
    ELSE [s EXCEPT
            !.symptom_analysis =
                symptom_analysis_tool(LastMessage(s).em, LastMessage(s).ur),
            !.clinical_assessment = llm_text,
            !.current_agent = "triage_agent",
            !.tools_used = s.tools_used \o
                              <<"symptom_analysis_tool", "llm_assessment">>,
            !.next_action = "assess_risk",
            !.messages = Append(s.messages, AIMessage("Analyzing symptoms"))]

\* TriageAgent._assess_risk_node
assess_risk_node(s, raises) ==
    IF raises
    THEN [s EXCEPT !.error = "Risk assessment failed", !.next_action = "error"]
    ELSE LET base_score == IF s.symptom_analysis.set
                           THEN s.symptom_analysis.severity_score ELSE 5
             \* base_score * (risk_score / 5.0), capped at 10, in tenths
             combined == Min(100, (base_score * risk_score * 2) \div 10)
         IN  [s EXCEPT
                !.combined_risk_score = combined,
                !.tools_used = Append(s.tools_used,
                                      "patient_risk_assessment_tool"),
                !.next_action = "determine_urgency",
                !.messages = Append(s.messages,
                                    AIMessage("Risk assessment complete"))]

\* bucket tests that try the moderate test before the urgent one
urgency_bucket_moderate_first(emergency_indicators, combined, severity_level) ==
    IF emergency_indicators > 0 \/ combined >= 90
       \/ severity_level = "emergency"
    THEN "emergency"
    ELSE IF combined >= 50 \/ severity_level = "moderate"
    THEN "moderate"
    ELSE IF combined >= 70 \/ severity_level = "urgent"
    THEN "urgent"
    ELSE "routine"

\* the bucket tests of TriageAgent._determine_urgency_node (lines 281-292)
urgency_bucket(emergency_indicators, combined, severity_level) ==
    IF emergency_indicators > 0 \/ combined >= 90
       \/ severity_level = "emergency"
    THEN "emergency"
    ELSE IF combined >= 70 \/ severity_level = "urgent"
    THEN "urgent"
    ELSE IF combined >= 50 \/ severity_level = "moderate"
    THEN "moderate"
    ELSE "routine"

\* TriageAgent._determine_urgency_node
determine_urgency_node(s) ==
    LET sa == s.symptom_analysis
        combined == IF s.combined_risk_score = -1 THEN 50
                    ELSE s.combined_risk_score
        emergency_indicators == IF sa.set THEN sa.emergency_indicators ELSE 0
        severity_level == IF sa.set THEN sa.severity_level ELSE "routine"
        urgency_level ==
            urgency_bucket(emergency_indicators, combined, severity_level)
    IN  [s EXCEPT
           !.triage_result =
               [set |-> TRUE, urgency_level |-> urgency_level,
                severity_score |-> combined,
                emergency_indicators |-> emergency_indicators],
           !.urgency_level = urgency_level,
           !.escalation_needed = (urgency_level \in {"emergency", "urgent"}),
           !.next_action = IF urgency_level = "emergency"
                           THEN "escalate_emergency"
                           ELSE "provide_recommendations",
           !.messages = Append(s.messages, AIMessage("Triage complete"))]

\* TriageAgent._escalate_emergency_node
escalate_emergency_node(s, raises) ==
    IF raises
    THEN [s EXCEPT !.error = "Emergency escalation failed",
                   !.next_action = "error"]
    ELSE [s EXCEPT
            !.requires_human_review = TRUE,
            !.workflow_complete = TRUE,
            !.next_agent = "END",
            !.tools_used = Append(s.tools_used, "emergency_escalation_tool"),
            !.messages = Append(s.messages,
                                AIMessage("EMERGENCY PROTOCOL ACTIVATED"))]

\* TriageAgent._provide_recommendations_node
provide_recommendations_node(s) ==
    LET urgency_level == IF s.triage_result.set
                         THEN s.triage_result.urgency_level ELSE "routine"
    IN  [s EXCEPT
           !.workflow_complete = TRUE,
           !.next_agent = IF urgency_level \in {"urgent", "moderate"}
                          THEN "appointment_agent"
                          ELSE "virtual_assistant_agent",
           !.messages = Append(s.messages,
                               AIMessage("Recommendations " \o urgency_level))]

\* TriageAgent._handle_triage_error_node; the text of its message names
\* "severe shortness of breath" (one emergency and one urgent keyword)
handle_triage_error_node(s) ==
    [s EXCEPT
       !.requires_human_review = TRUE,
       !.workflow_complete = TRUE,
       !.next_agent = "virtual_assistant_agent",
       !.messages = Append(s.messages,
                           Msg("ai", "TRIAGE ASSESSMENT ERROR", 1, 1))]

\* TriageAgent._route_after_symptom_analysis
route_after_symptom_analysis(s) ==
    IF s.error # None THEN "handle_error" ELSE "assess_risk"

\* TriageAgent._route_after_risk_assessment
route_after_risk_assessment(s) ==
    IF s.error # None THEN "handle_error" ELSE "determine_urgency"

\* TriageAgent._route_after_urgency_determination
\* a route that escalates every outcome other than routine
route_after_urgency_determination_non_routine(s) ==
    IF s.error # None THEN "handle_error"
    ELSE IF s.urgency_level # "routine" THEN "escalate_emergency"
    ELSE "provide_recommendations"

route_after_urgency_determination(s) ==
    IF s.error # None THEN "handle_error"
    ELSE IF s.next_action = "escalate_emergency" THEN "escalate_emergency"
    ELSE "provide_recommendations"

\* CardiologyWorkflow._route_from_triage with the edge map of
\* _build_enhanced_workflow ("emergency_end" -> END,
\* "complete" -> workflow_complete)
route_from_triage(s) ==
    IF s.urgency_level = "emergency" THEN "END"
    ELSE IF s.escalation_needed \/ s.urgency_level = "urgent"
    THEN "appointment_agent"
    ELSE IF s.next_agent = "virtual_assistant_agent"
    THEN "virtual_assistant_agent"
    ELSE "workflow_complete"

-----------------------------------------------------------------------------
(* Appointment handler *)

\* an availability table that knows the three lower-case buckets only
check_availability_tool_known_buckets(urgency_level) ==
    IF urgency_level = "emergency"
    THEN [set |-> TRUE, available |-> TRUE, next_slot |-> "IMMEDIATE",
          appointment_type |-> "emergency_consultation"]
    ELSE IF urgency_level = "urgent"
    THEN [set |-> TRUE, available |-> TRUE, next_slot |-> "Within 24 hours",
          appointment_type |-> "urgent_consultation"]
    ELSE IF urgency_level = "routine"
    THEN [set |-> TRUE, available |-> TRUE, next_slot |-> "Within 1-2 weeks",
          appointment_type |-> "routine_consultation"]
    ELSE [set |-> TRUE, available |-> FALSE, next_slot |-> None,
          appointment_type |-> None]

\* the urgency_level a node reads with state.get("urgency_level", "routine"):
\* the key is always present, so the default never applies
check_availability_tool(urgency_level) ==
    IF urgency_level = "emergency"
    THEN [set |-> TRUE, available |-> TRUE, next_slot |-> "IMMEDIATE",
          appointment_type |-> "emergency_consultation"]
    ELSE IF urgency_level = "urgent"
    THEN [set |-> TRUE, available |-> TRUE, next_slot |-> "Within 24 hours",
          appointment_type |-> "urgent_consultation"]
    ELSE [set |-> TRUE, available |-> TRUE, next_slot |-> "Within 1-2 weeks",
          appointment_type |-> "routine_consultation"]

\* AppointmentAgent._analyze_appointment_request_node
analyze_appointment_request_node(s, raises) ==
    IF s.messages = <<>>
    THEN [s EXCEPT !.error = "No appointment request to analyze",
                   !.current_agent = "appointment_agent",
                   !.next_action = "error"]
    ELSE IF raises
    THEN [s EXCEPT !.error = "Request analysis failed",
                   !.current_agent = "appointment_agent",
                   !.next_action = "error"]
    ELSE [s EXCEPT
            !.appointment_analysis =
                [set |-> TRUE, preferred_timing |-> s.urgency_level,
                 confidence_level |-> 9],
            !.current_agent = "appointment_agent",
            !.next_action = "check_availability",
            !.tools_used = Append(s.tools_used, "llm_analysis"),
            !.messages = Append(s.messages,
                                AIMessage("Analyzing your appointment request"))]

\* AppointmentAgent._check_availability_node
check_availability_node(s, raises) ==
    IF raises \/ s.urgency_level = None  \* the tool's str argument rejects None
    THEN [s EXCEPT !.error = "Availability check failed",
                   !.next_action = "error"]
    ELSE LET availability_result == check_availability_tool(s.urgency_level)
         IN  IF availability_result.available
             THEN [s EXCEPT
                     !.availability_check = availability_result,
                     !.next_action = "book_appointment",
                     !.tools_used = Append(s.tools_used,
                                           "check_availability_tool"),
                     !.messages = Append(s.messages,
                                         AIMessage("Found available slot"))]
             ELSE [s EXCEPT
                     !.error = "No available appointment slots found",
                     !.next_action = "error",
                     !.tools_used = Append(s.tools_used,
                                           "check_availability_tool")]

\* AppointmentAgent._book_appointment_node
book_appointment_node(s, raises) ==
    IF raises \/ s.urgency_level = None
    THEN [s EXCEPT !.error = "Appointment booking failed",
                   !.next_action = "error"]
    ELSE [s EXCEPT
            !.booking_result = "confirmed",
            !.appointment_scheduled = TRUE,
            !.next_action = "send_confirmation",
            !.tools_used = Append(s.tools_used, "book_appointment_tool"),
            !.messages = Append(s.messages,
                                AIMessage("Appointment successfully booked"))]

\* AppointmentAgent._send_confirmation_node
send_confirmation_node(s, raises) ==
    IF raises
    THEN [s EXCEPT !.error = "Confirmation sending failed",
                   !.next_action = "error"]
    ELSE [s EXCEPT
            !.workflow_complete = TRUE,
            !.next_agent = "virtual_assistant_agent",
            !.tools_used = Append(s.tools_used, "notify_patient_tool"),
            !.messages = Append(s.messages,
                                AIMessage("APPOINTMENT CONFIRMATION COMPLETE"))]

\* AppointmentAgent._handle_error_node
handle_error_node(s) ==
    [s EXCEPT
       !.requires_human_review = TRUE,
       !.workflow_complete = TRUE,
       !.next_agent = "virtual_assistant_agent",
       !.messages = Append(s.messages,
                           AIMessage("APPOINTMENT SCHEDULING ERROR"))]

\* AppointmentAgent._route_after_analysis
route_after_analysis(s) ==
    IF s.error # None THEN "handle_error"
    ELSE IF (IF s.appointment_analysis.set
             THEN s.appointment_analysis.confidence_level ELSE 0) < 5
    THEN "handle_error"
    ELSE "check_availability"

\* AppointmentAgent._route_after_availability_check
route_after_availability_check(s) ==
    IF s.error # None THEN "handle_error"
    ELSE IF ~(s.availability_check.set /\ s.availability_check.available)
    THEN "handle_error"
    ELSE "book_appointment"

\* AppointmentAgent._route_after_booking
route_after_booking(s) ==
    IF s.error # None THEN "handle_error"
    ELSE IF s.booking_result # "confirmed" THEN "handle_error"
    ELSE "send_confirmation"

\* a routing that delivers follow-up education whatever the booking did
route_from_appointment_always_education(s) == "virtual_assistant_agent"

\* a routing that sends an unscheduled appointment request back to the
\* supervisor instead of completing the workflow
route_from_appointment_back(s) ==
    IF s.appointment_scheduled THEN "virtual_assistant_agent"
    ELSE "supervisor"

\* CardiologyWorkflow._route_from_appointment with the edge map of
\* _build_enhanced_workflow ("complete" -> workflow_complete)
route_from_appointment(s) ==
    IF s.appointment_scheduled THEN "virtual_assistant_agent"
    ELSE "workflow_complete"

-----------------------------------------------------------------------------
(* Education handler (virtual assistant) *)

\* the focus and priority chosen by VirtualAssistantAgent._analyze_context_node
education_focus(urgency_level) ==
    IF urgency_level \in {"emergency", "urgent"} THEN "emergency_recognition"
    ELSE IF urgency_level = "moderate" THEN "symptom_monitoring"
    ELSE "heart_healthy_lifestyle"

priority_level(urgency_level) ==
    IF urgency_level \in {"emergency", "urgent"} THEN "high"
    ELSE IF urgency_level = "moderate" THEN "medium"
    ELSE "routine"

EducationTopics ==
    {"heart_healthy_lifestyle", "medication_management", "symptom_monitoring",
     "emergency_recognition"}

\* patient_education_tool: the content block selected
patient_education_tool(topic, urgency_level) ==
    IF topic \in EducationTopics THEN topic
    ELSE IF urgency_level \in {"emergency", "urgent"}
    THEN "emergency_recognition"
    ELSE "heart_healthy_lifestyle"

\* VirtualAssistantAgent._analyze_context_node
analyze_context_node(s) ==
    [s EXCEPT
       !.context_analysis =
           [set |-> TRUE, urgency_level |-> s.urgency_level,
            education_focus |-> education_focus(s.urgency_level),
            priority_level |-> priority_level(s.urgency_level)],
       !.current_agent = "virtual_assistant_agent",
       !.next_action = "provide_education",
       !.messages = Append(s.messages, AIMessage("Analyzing your needs"))]

\* VirtualAssistantAgent._provide_education_node; a None urgency_level is
\* rejected by the tool and by urgency_level.upper(), inside the try
provide_education_node(s, raises) ==
    LET ca == s.context_analysis
        focus == IF ca.set THEN ca.education_focus
                 ELSE "heart_healthy_lifestyle"
        urgency_level == IF ca.set THEN ca.urgency_level ELSE "routine"
    IN  IF raises \/ urgency_level = None
        THEN [s EXCEPT !.error = "Education provision failed",
                       !.next_action = "error"]
        ELSE [s EXCEPT
                !.education_provided =
                    patient_education_tool(focus, urgency_level),
                !.tools_used = Append(s.tools_used, "patient_education_tool"),
                !.next_action = "generate_recommendations",
                !.messages = Append(s.messages,
                                    AIMessage("Education content"))]

\* VirtualAssistantAgent._generate_recommendations_node; the lifestyle tool
\* asks for a follow-up when the triage result carries risk factors
generate_recommendations_node(s, raises) ==
    IF raises
    THEN [s EXCEPT !.error = "Recommendation generation failed",
                   !.next_action = "error"]
    ELSE LET ca == s.context_analysis
             needs_tracking ==
                 \/ (ca.set /\ ca.priority_level \in {"high", "medium"})
                 \/ s.triage_result.set
         IN  [s EXCEPT
                !.needs_tracking = needs_tracking,
                !.tools_used = Append(s.tools_used,
                                      "lifestyle_recommendation_tool"),
                !.next_action = IF needs_tracking THEN "setup_tracking"
                                ELSE "create_summary",
                !.messages = Append(s.messages,
                                    AIMessage("PERSONALIZED RECOMMENDATIONS"))]

\* VirtualAssistantAgent._setup_tracking_node
setup_tracking_node(s, raises) ==
    IF raises
    THEN [s EXCEPT !.error = "Tracking setup failed", !.next_action = "error"]
    ELSE [s EXCEPT
            !.tools_used = Append(s.tools_used, "wellness_tracking_tool"),
            !.next_action = "create_summary",
            !.messages = Append(s.messages,
                                AIMessage("WELLNESS TRACKING PLAN"))]

\* VirtualAssistantAgent._create_summary_node
create_summary_node(s) ==
    [s EXCEPT
       !.workflow_complete = TRUE,
       !.next_agent = "END",
       !.messages = Append(s.messages, AIMessage("SESSION SUMMARY"))]

\* VirtualAssistantAgent._handle_assistant_error_node
handle_assistant_error_node(s) ==
    [s EXCEPT
       !.workflow_complete = TRUE,
       !.next_agent = "END",
       !.messages = Append(s.messages, AIMessage("VIRTUAL ASSISTANT ERROR"))]

\* a failed sub-graph run whose failure is dropped: the handler's input
\* state comes back as it was
process_assistant_workflow_silent(s) == s

\* VirtualAssistantAgent.process_assistant_workflow, except branch
process_assistant_workflow_failed(s) ==
    handle_assistant_error_node(
        [s EXCEPT !.error = "Assistant workflow execution failed"])

\* VirtualAssistantAgent._route_after_context_analysis
route_after_context_analysis(s) ==
    IF s.error # None THEN "handle_error" ELSE "provide_education"

\* VirtualAssistantAgent._route_after_education
route_after_education(s) ==
    IF s.error # None THEN "handle_error" ELSE "generate_recommendations"

\* VirtualAssistantAgent._route_after_recommendations
route_after_recommendations(s) ==
    IF s.error # None THEN "handle_error"
    ELSE IF s.needs_tracking THEN "setup_tracking"
    ELSE "create_summary"

-----------------------------------------------------------------------------
(* Clinical documentation handler *)

\* clinical_assessment_tool: the clinical impression
clinical_assessment_tool(urgency_level) ==
    IF urgency_level = "emergency" THEN "Acute cardiac emergency"
    ELSE IF urgency_level = "urgent" THEN "Urgent cardiac symptoms"
    ELSE IF urgency_level = "moderate" THEN "Moderate cardiac symptoms"
    ELSE "Routine cardiac assessment"

\* discharge_summary_tool: the discharge status
discharge_summary_tool(urgency_level) ==
    IF urgency_level = "emergency" THEN "Emergency transport arranged"
    ELSE "Discharged to home with instructions"

\* ClinicalDocsAgent._gather_session_data_node
gather_session_data_node(s) ==
    [s EXCEPT
       !.session_data = [set |-> TRUE, urgency_level |-> s.urgency_level],
       !.current_agent = "clinical_docs_agent",
       !.next_action = "generate_assessment",
       !.messages = Append(s.messages, AIMessage("Gathering session data"))]

\* ClinicalDocsAgent._generate_assessment_node
generate_assessment_node(s, raises) ==
    IF raises
    THEN [s EXCEPT !.error = "Assessment generation failed",
                   !.next_action = "error"]
    ELSE [s EXCEPT
            !.clinical_assessment =
                clinical_assessment_tool(IF s.session_data.set
                                         THEN s.session_data.urgency_level
                                         ELSE "routine"),
            !.assessment_narrative = TRUE,
            !.tools_used = Append(s.tools_used, "clinical_assessment_tool"),
            !.next_action = "create_treatment_plan",
            !.messages = Append(s.messages,
                                AIMessage("Clinical assessment generated"))]

\* ClinicalDocsAgent._create_treatment_plan_node
create_treatment_plan_node(s, raises) ==
    IF raises
    THEN [s EXCEPT !.error = "Treatment plan creation failed",
                   !.next_action = "error"]
    ELSE [s EXCEPT
            !.treatment_plan_text = TRUE,
            !.tools_used = Append(s.tools_used, "treatment_plan_tool"),
            !.next_action = "generate_discharge_summary",
            !.messages = Append(s.messages,
                                AIMessage("TREATMENT PLAN GENERATED"))]

\* ClinicalDocsAgent._generate_discharge_summary_node
generate_discharge_summary_node(s, raises) ==
    IF raises
    THEN [s EXCEPT !.error = "Discharge summary generation failed",
                   !.next_action = "error"]
    ELSE [s EXCEPT
            !.discharge_summary =
                discharge_summary_tool(IF s.session_data.set
                                       THEN s.session_data.urgency_level
                                       ELSE None),
            !.tools_used = Append(s.tools_used, "discharge_summary_tool"),
            !.next_action = "compile_final_report",
            !.messages = Append(s.messages, AIMessage("DISCHARGE SUMMARY"))]

\* a final-report step that gives up when an upstream output is absent
compile_final_report_node_needs_all(s) ==
    IF s.assessment_narrative /\ s.clinical_assessment # None
       /\ s.treatment_plan_text /\ s.discharge_summary # None
    THEN [s EXCEPT
            !.final_clinical_report =
                [set |-> TRUE, assessment |-> "narrative",
                 impression |-> s.clinical_assessment, plan |-> "plan",
                 discharge_status |-> s.discharge_summary],
            !.workflow_complete = TRUE,
            !.next_agent = "END",
            !.messages = Append(s.messages,
                                AIMessage("Clinical documentation completed"))]
    ELSE [s EXCEPT !.error = "Report compilation failed",
                   !.next_action = "error"]

\* ClinicalDocsAgent._compile_final_report_node
compile_final_report_node(s) ==
    [s EXCEPT
       !.final_clinical_report =
           [set |-> TRUE,
            assessment |-> IF s.assessment_narrative THEN "narrative"
                           ELSE "Assessment not available",
            impression |-> IF s.clinical_assessment # None
                           THEN s.clinical_assessment
                           ELSE "Assessment pending",
            plan |-> IF s.treatment_plan_text THEN "plan"
                     ELSE "Plan pending",
            discharge_status |-> IF s.discharge_summary # None
                                 THEN s.discharge_summary
                                 ELSE "Status pending"],
       !.workflow_complete = TRUE,
       !.next_agent = "END",
       !.messages = Append(s.messages,
                           AIMessage("Clinical documentation completed"))]

\* ClinicalDocsAgent._handle_documentation_error_node
handle_documentation_error_node(s) ==
    [s EXCEPT
       !.workflow_complete = TRUE,
       !.next_agent = "END",
       !.messages = Append(s.messages,
                           AIMessage("CLINICAL DOCUMENTATION ERROR"))]

\* ClinicalDocsAgent._route_after_data_gathering
route_after_data_gathering(s) ==
    IF s.error # None THEN "handle_error" ELSE "generate_assessment"

\* ClinicalDocsAgent._route_after_assessment
route_after_assessment(s) ==
    IF s.error # None THEN "handle_error" ELSE "create_treatment_plan"

\* ClinicalDocsAgent._route_after_treatment_plan
route_after_treatment_plan(s) ==
    IF s.error # None THEN "handle_error" ELSE "generate_discharge_summary"

\* a completion step that starts the flags afresh instead of keeping them
completion_node_fresh_flags(s) ==
    [s EXCEPT !.workflow_complete = TRUE,
              !.current_agent = "workflow_complete",
              !.requires_human_review = FALSE,
              !.escalation_needed = FALSE]

\* a completion step that hands back a state without the triage result
completion_node_drops_results(s) ==
    [s EXCEPT !.workflow_complete = TRUE,
              !.current_agent = "workflow_complete",
              !.triage_result = NoTriageResult]

\* CardiologyWorkflow._completion_node
completion_node(s) ==
    [s EXCEPT
       !.workflow_complete = TRUE,
       !.current_agent = "workflow_complete",
       !.messages = Append(s.messages,
                           AIMessage("Cardiology AI Consultation Complete"))]

-----------------------------------------------------------------------------
(* The routing graph of CardiologyWorkflow *)

SpecialistNodes ==
    {"triage_agent", "appointment_agent", "virtual_assistant_agent",
     "clinical_docs_agent"}

Idle == [op |-> "none"]

NotAsked == [called |-> FALSE, raised |-> FALSE, agent |-> None]

calendar == <<appointments, result, lastOp>>

InitCalendarIdle ==
    /\ appointments = <<>>
    /\ result = Idle
    /\ lastOp = Idle

\* process_patient_query: a fresh state per chat message, entry = supervisor
Init ==
    /\ node = "supervisor"
    /\ step = "entry"
    /\ \/ \E em \in 0..MaxEmergencyKw, ur \in 0..MaxUrgentKw :
             st = initial_state(em, ur)
       \/ st = [initial_state(0, 0) EXCEPT !.messages = <<EmptyMessage>>]
    /\ trace = <<>>
    /\ oracle = NotAsked
    /\ InitCalendarIdle
    /\ NoConcurrency

\* _supervisor_node as first defined (self.supervisor(state)), followed by
\* the conditional edge out of supervisor
SupervisorNode ==
    /\ node = "supervisor"
    /\ \E r \in Replies, raises \in BOOLEAN :
          LET s1 == SupervisorCall(st, r, raises)
          IN  /\ st' = s1
              /\ node' = route_from_supervisor(s1)
              /\ oracle' = [called |-> TRUE, raised |-> raises,
                            agent |-> IF raises THEN None ELSE r.agent]
    /\ step' = "entry"
    /\ trace' = Append(trace, "supervisor")
    /\ UNCHANGED <<calendar, concurrency>>

Next == SupervisorNode

Spec == Init /\ [][Next]_vars

\* a step inside a handler's sub-graph: the node function, then the
\* conditional edge that picks the next sub-graph node
Inner(n, from, s1, to) ==
    /\ node = n
    /\ step = from
    /\ st' = s1
    /\ step' = to
    /\ trace' = IF from = "entry" THEN Append(trace, n) ELSE trace
    /\ UNCHANGED <<node, oracle, calendar, concurrency>>

\* the last step of a handler's sub-graph (an edge to END): the handler
\* returns s1 to the routing graph, whose edge picks the next node
Last(n, from, s1, next) ==
    /\ node = n
    /\ step = from
    /\ st' = s1
    /\ step' = "entry"
    /\ node' = next
    /\ trace' = IF from = "entry" THEN Append(trace, n) ELSE trace
    /\ UNCHANGED <<oracle, calendar, concurrency>>

TriageAnalyzeSymptoms ==
    \E raises \in BOOLEAN, llm_text \in LlmAssessments :
        LET s1 == analyze_symptoms_node(st, raises, llm_text)
        IN  Inner("triage_agent", "entry", s1,
                  route_after_symptom_analysis(s1))

TriageAssessRisk ==
    \E raises \in BOOLEAN :
        LET s1 == assess_risk_node(st, raises)
        IN  Inner("triage_agent", "assess_risk", s1,
                  route_after_risk_assessment(s1))

TriageDetermineUrgency ==
    LET s1 == determine_urgency_node(st)
    IN  Inner("triage_agent", "determine_urgency", s1,
              route_after_urgency_determination(s1))

TriageEscalateEmergency ==
    \E raises \in BOOLEAN :
        LET s1 == escalate_emergency_node(st, raises)
        IN  Last("triage_agent", "escalate_emergency", s1,
                 route_from_triage(s1))

TriageProvideRecommendations ==
    LET s1 == provide_recommendations_node(st)
    IN  Last("triage_agent", "provide_recommendations", s1,
             route_from_triage(s1))

TriageHandleError ==
    LET s1 == handle_triage_error_node(st)
    IN  Last("triage_agent", "handle_error", s1, route_from_triage(s1))

ApptAnalyzeRequest ==
    \E raises \in BOOLEAN :
        LET s1 == analyze_appointment_request_node(st, raises)
        IN  Inner("appointment_agent", "entry", s1, route_after_analysis(s1))

ApptCheckAvailability ==
    \E raises \in BOOLEAN :
        LET s1 == check_availability_node(st, raises)
        IN  Inner("appointment_agent", "check_availability", s1,
                  route_after_availability_check(s1))

ApptBookAppointment ==
    \E raises \in BOOLEAN :
        LET s1 == book_appointment_node(st, raises)
        IN  Inner("appointment_agent", "book_appointment", s1,
                  route_after_booking(s1))

ApptSendConfirmation ==
    \E raises \in BOOLEAN :
        LET s1 == send_confirmation_node(st, raises)
        IN  Last("appointment_agent", "send_confirmation", s1,
                 route_from_appointment(s1))

ApptHandleError ==
    LET s1 == handle_error_node(st)
    IN  Last("appointment_agent", "handle_error", s1,
             route_from_appointment(s1))

\* the edges out of virtual_assistant_agent and clinical_docs_agent are
\* unconditional: add_edge(..., "workflow_complete")
\* _analyze_context_node has no try: with triage_result = None (its initial
\* value) _determine_educational_needs raises on triage_result.get, the
\* sub-graph run fails and process_assistant_workflow answers with the
\* error node applied to the handler's input state
AssistantAnalyzeContext ==
    IF ~st.triage_result.set
    THEN Last("virtual_assistant_agent", "entry",
              process_assistant_workflow_failed(st), "workflow_complete")
    ELSE LET s1 == analyze_context_node(st)
         IN  Inner("virtual_assistant_agent", "entry", s1,
                   route_after_context_analysis(s1))

AssistantProvideEducation ==
    \E raises \in BOOLEAN :
        LET s1 == provide_education_node(st, raises)
        IN  Inner("virtual_assistant_agent", "provide_education", s1,
                  route_after_education(s1))

AssistantGenerateRecommendations ==
    \E raises \in BOOLEAN :
        LET s1 == generate_recommendations_node(st, raises)
        IN  Inner("virtual_assistant_agent", "generate_recommendations", s1,
                  route_after_recommendations(s1))

AssistantSetupTracking ==
    \E raises \in BOOLEAN :
        Inner("virtual_assistant_agent", "setup_tracking",
              setup_tracking_node(st, raises), "create_summary")

\* an education handler whose summary is followed by clinical documentation
AssistantCreateSummaryThenDocs ==
    Last("virtual_assistant_agent", "create_summary",
         create_summary_node(st), "clinical_docs_agent")

AssistantCreateSummary ==
    Last("virtual_assistant_agent", "create_summary",
         create_summary_node(st), "workflow_complete")

AssistantHandleError ==
    Last("virtual_assistant_agent", "handle_error",
         handle_assistant_error_node(st), "workflow_complete")

DocsGatherSessionData ==
    LET s1 == gather_session_data_node(st)
    IN  Inner("clinical_docs_agent", "entry", s1,
              route_after_data_gathering(s1))

DocsGenerateAssessment ==
    \E raises \in BOOLEAN :
        LET s1 == generate_assessment_node(st, raises)
        IN  Inner("clinical_docs_agent", "generate_assessment", s1,
                  route_after_assessment(s1))

DocsCreateTreatmentPlan ==
    \E raises \in BOOLEAN :
        LET s1 == create_treatment_plan_node(st, raises)
        IN  Inner("clinical_docs_agent", "create_treatment_plan", s1,
                  route_after_treatment_plan(s1))

DocsGenerateDischargeSummary ==
    \E raises \in BOOLEAN :
        Inner("clinical_docs_agent", "generate_discharge_summary",
              generate_discharge_summary_node(st, raises),
              "compile_final_report")

DocsCompileFinalReport ==
    Last("clinical_docs_agent", "compile_final_report",
         compile_final_report_node(st), "workflow_complete")

DocsHandleError ==
    Last("clinical_docs_agent", "handle_error",
         handle_documentation_error_node(st), "workflow_complete")

\* _completion_node, then add_edge("workflow_complete", END)
CompletionNode ==
    Last("workflow_complete", "entry", completion_node(st), "END")

-----------------------------------------------------------------------------
(* The routing graph entered at every node.                                *)
(*                                                                         *)
(* Spec is one run of process_patient_query.  SpecGraph adds, for every    *)
(* specialist node, the runs that start there with the state the           *)
(* supervisor returns when it chooses that handler, so that the handlers   *)
(* and the edges out of them are exercised as functions of that state.     *)
(* urgency_level (Optional[str] in AgentState) ranges over the values the  *)
(* supervisor writes, the values the handlers test, and None.              *)
(***************************************************************************)

NodeLabel(n) ==
    CASE n = "triage_agent" -> "TRIAGE_AGENT"
      [] n = "appointment_agent" -> "APPOINTMENT_AGENT"
      [] n = "virtual_assistant_agent" -> "VIRTUAL_ASSISTANT"
      [] n = "clinical_docs_agent" -> "CLINICAL_DOCS"

\* the state SupervisorAgent.__call__ returns for a query with (em0, ur0)
\* keywords when the oracle names label with a reasoning text holding
\* (em1, ur1) keywords
Handoff(label, em0, ur0, em1, ur1, u) ==
    LET r == [isText |-> TRUE, agent |-> label, urgency |-> None,
              reasoning |-> TRUE, em |-> em1, ur |-> ur1, words |-> {}]
    IN  [SupervisorCall(initial_state(em0, ur0), r, FALSE)
            EXCEPT !.urgency_level = u]

InitHandoff ==
    /\ node \in SpecialistNodes
    /\ step = "entry"
    /\ \E em0, em1 \in 0..MaxEmergencyKw, ur0, ur1 \in 0..MaxUrgentKw,
          u \in Urgencies :
          st = Handoff(NodeLabel(node), em0, ur0, em1, ur1, u)
    /\ trace = <<"supervisor">>
    /\ oracle = [called |-> TRUE, raised |-> FALSE, agent |-> NodeLabel(node)]
    /\ InitCalendarIdle
    /\ NoConcurrency

InitGraph == Init \/ InitHandoff

NextGraph ==
    \/ SupervisorNode
    \/ TriageAnalyzeSymptoms
    \/ TriageAssessRisk
    \/ TriageDetermineUrgency
    \/ TriageEscalateEmergency
    \/ TriageProvideRecommendations
    \/ TriageHandleError
    \/ ApptAnalyzeRequest
    \/ ApptCheckAvailability
    \/ ApptBookAppointment
    \/ ApptSendConfirmation
    \/ ApptHandleError
    \/ AssistantAnalyzeContext
    \/ AssistantProvideEducation
    \/ AssistantGenerateRecommendations
    \/ AssistantSetupTracking
    \/ AssistantCreateSummary
    \/ AssistantHandleError
    \/ DocsGatherSessionData
    \/ DocsGenerateAssessment
    \/ DocsCreateTreatmentPlan
    \/ DocsGenerateDischargeSummary
    \/ DocsCompileFinalReport
    \/ DocsHandleError
    \/ CompletionNode

SpecGraph == InitGraph /\ [][NextGraph]_vars

\* the engine runs the next node whenever there is one
SpecGraphFair == SpecGraph /\ WF_vars(NextGraph)

-----------------------------------------------------------------------------
(* _determine_urgency_node as a function of its inputs.                    *)
(*                                                                         *)
(* The node reads symptom_analysis (the result of symptom_analysis_tool)   *)
(* and combined_risk_score.  The score depends on the patient's risk       *)
(* record, so it ranges over sample values on both sides of each           *)
(* threshold, in tenths.                                                   *)
(***************************************************************************)

ScoreSamples == {20, 26, 49, 50, 52, 69, 70, 78, 89, 90, 91, 100}

InitUrgency ==
    /\ node = "triage_agent"
    /\ step = "determine_urgency"
    /\ \E em \in 0..MaxEmergencyKw, ur \in 0..MaxUrgentKw,
          score \in ScoreSamples :
          st = [assess_risk_node(
                    analyze_symptoms_node(
                        Handoff("TRIAGE_AGENT", 0, 0, em, ur, None), FALSE,
                        "Routine: no cardiac concern"),
                    FALSE)
                EXCEPT !.combined_risk_score = score]
    /\ trace = <<"supervisor", "triage_agent">>
    /\ oracle = [called |-> TRUE, raised |-> FALSE, agent |-> "TRIAGE_AGENT"]
    /\ InitCalendarIdle
    /\ NoConcurrency

NextUrgency == TriageDetermineUrgency

SpecUrgency == InitUrgency /\ [][NextUrgency]_vars

-----------------------------------------------------------------------------
(* _parse_routing_response as a function of the oracle's reply, called     *)
(* once: lastOp holds the call and its argument, result the decision.      *)
(***************************************************************************)

InitParse ==
    /\ node = "supervisor"
    /\ step = "entry"
    /\ st = initial_state(0, 0)
    /\ trace = <<>>
    /\ oracle = NotAsked
    /\ InitCalendarIdle
    /\ NoConcurrency

ParseRoutingResponse ==
    \E r \in Replies :
        /\ lastOp = Idle
        /\ lastOp' = [op |-> "parse_routing_response", response |-> r]
        /\ result' = parse_routing_response(r)
        /\ UNCHANGED <<appointments, node, step, st, trace, oracle,
                       concurrency>>

NextParse == ParseRoutingResponse

SpecParse == InitParse /\ [][NextParse]_vars

-----------------------------------------------------------------------------
(* AppointmentSystemTool: the in-memory appointment calendar.              *)
(*                                                                         *)
(* appointments is the dict date -> list of appointment records; a date    *)
(* that was never booked is no key of it.  The notes and created_at        *)
(* fields of a record are not read by any method and are left out.         *)
(***************************************************************************)

\* how many of the twelve regular slots of a day the model keeps
NumSlots == 2

Patients == {"P1", "P2"}

AppointmentTypes == {"routine", "urgent"}

\* a weekday within the next 30 days and a Saturday (no availability)
Dates == {"2026-11-09", "2026-11-14"}

\* _generate_mock_availability: weekends are skipped
availability ==
    [d \in {"2026-11-09"} |->
        [slots |-> SubSeq(<<"09:00", "09:30", "10:00", "10:30",
                            "11:00", "11:30", "14:00", "14:30",
                            "15:00", "15:30", "16:00", "16:30">>,
                          1, NumSlots),
         emergency_slots |-> <<"08:00", "17:00">>]]

Range(s) == {s[i] : i \in 1..Len(s)}

Times ==
    UNION {Range(availability[d].slots) \cup
           Range(availability[d].emergency_slots) : d \in DOMAIN availability}

\* the calendar holds at most one day's regular slots
MaxAppointments == NumSlots

\* self.appointments.get(date, [])
appointments_get(appts, date) ==
    IF date \in DOMAIN appts THEN appts[date] ELSE <<>>

RECURSIVE Total(_, _)
Total(appts, ds) ==
    IF ds = {} THEN 0
    ELSE LET d == CHOOSE x \in ds : TRUE
         IN  Len(appts[d]) + Total(appts, ds \ {d})

\* seq[:n]
FirstN(seq, n) == SubSeq(seq, 1, Min(n, Len(seq)))

\* list.pop(i)
Pop(seq, i) == SubSeq(seq, 1, i - 1) \o SubSeq(seq, i + 1, Len(seq))

\* AppointmentSystemTool.check_availability
check_availability(appts, date, appointment_type) ==
    IF date \notin DOMAIN availability
    THEN [available |-> FALSE, slots |-> <<>>]
    ELSE LET day == availability[date]
             all == IF appointment_type \in {"emergency", "urgent"}
                    THEN day.slots \o day.emergency_slots
                    ELSE day.slots
             booked_slots == {apt.time :
                                 apt \in Range(appointments_get(appts, date))}
             available_slots ==
                 SelectSeq(all, LAMBDA slot : slot \notin booked_slots)
         IN  [available |-> Len(available_slots) > 0,
              slots |-> available_slots,
              date |-> date]

\* the f-string "CARD-{date}-{time}-{patient_id}" as its parts
appointment_id_of(patient_id, date, time) ==
    <<"CARD", date, time, patient_id>>

new_appointment(patient_id, date, time, appointment_type) ==
    [appointment_id |-> appointment_id_of(patient_id, date, time),
     patient_id |-> patient_id,
     date |-> date,
     time |-> time,
     type |-> appointment_type,
     status |-> "confirmed"]

\* a booking that tests only whether the day has any free slot
book_appointment_any_slot(appts, patient_id, date, time, appointment_type) ==
    LET a == check_availability(appts, date, appointment_type)
        appointment == new_appointment(patient_id, date, time,
                                       appointment_type)
    IN  IF ~a.available
        THEN [appointments |-> appts,
              result |-> [success |-> FALSE,
                          message |-> "Requested time slot is not available",
                          alternative_slots |-> FirstN(a.slots, 3)]]
        ELSE [appointments |->
                  (date :> Append(appointments_get(appts, date), appointment))
                      @@ appts,
              result |-> [success |-> TRUE,
                          appointment_id |-> appointment.appointment_id,
                          appointment |-> appointment,
                          message |-> "Appointment confirmed"]]

\* AppointmentSystemTool.book_appointment: the calendar and the result
book_appointment(appts, patient_id, date, time, appointment_type) ==
    LET a == check_availability(appts, date, appointment_type)
        appointment == new_appointment(patient_id, date, time,
                                       appointment_type)
    IN  IF ~a.available \/ time \notin Range(a.slots)
        THEN [appointments |-> appts,
              result |-> [success |-> FALSE,
                          message |-> "Requested time slot is not available",
                          alternative_slots |-> FirstN(a.slots, 3)]]
        ELSE [appointments |->
                  (date :> Append(appointments_get(appts, date), appointment))
                      @@ appts,
              result |-> [success |-> TRUE,
                          appointment_id |-> appointment.appointment_id,
                          appointment |-> appointment,
                          message |-> "Appointment confirmed"]]

\* the (date, index) places of the calendar that hold appointment_id
Places(appts, appointment_id) ==
    {<<d, i>> \in (DOMAIN appts) \X (1..MaxAppointments + 1) :
        i <= Len(appts[d]) /\ appts[d][i].appointment_id = appointment_id}

\* a cancellation that looks the appointment up by its slot alone
cancel_appointment_by_slot(appts, appointment_id) ==
    LET found == {<<d, i>> \in (DOMAIN appts) \X (1..MaxAppointments + 1) :
                     /\ i <= Len(appts[d])
                     /\ appts[d][i].date = appointment_id[2]
                     /\ appts[d][i].time = appointment_id[3]}
    IN  IF found = {}
        THEN [appointments |-> appts,
              result |-> [success |-> FALSE,
                          message |-> "Appointment not found"]]
        ELSE LET at == CHOOSE x \in found : TRUE
             IN  [appointments |->
                      [appts EXCEPT ![at[1]] = Pop(appts[at[1]], at[2])],
                  result |-> [success |-> TRUE,
                              message |-> "Appointment cancelled successfully",
                              cancelled_appointment |-> appts[at[1]][at[2]]]]

\* a cancellation that marks the record and leaves it in its list
cancel_appointment_keep_entry(appts, appointment_id) ==
    LET found == Places(appts, appointment_id)
    IN  IF found = {}
        THEN [appointments |-> appts,
              result |-> [success |-> FALSE,
                          message |-> "Appointment not found"]]
        ELSE LET at == CHOOSE x \in found : TRUE
             IN  [appointments |->
                      [appts EXCEPT ![at[1]][at[2]].status = "cancelled"],
                  result |-> [success |-> TRUE,
                              message |-> "Appointment cancelled successfully",
                              cancelled_appointment |-> appts[at[1]][at[2]]]]

\* AppointmentSystemTool.cancel_appointment: pops the first record with
\* the id (an id names its date and time, so at most one record has it)
cancel_appointment(appts, appointment_id) ==
    LET found == Places(appts, appointment_id)
    IN  IF found = {}
        THEN [appointments |-> appts,
              result |-> [success |-> FALSE,
                          message |-> "Appointment not found"]]
        ELSE LET at == CHOOSE x \in found : TRUE
             IN  [appointments |->
                      [appts EXCEPT ![at[1]] = Pop(appts[at[1]], at[2])],
                  result |-> [success |-> TRUE,
                              message |-> "Appointment cancelled successfully",
                              cancelled_appointment |-> appts[at[1]][at[2]]]]

\* a rescheduling that books the new slot and leaves the old entry stored
reschedule_appointment_keep_old(appts, appointment_id, new_date, new_time) ==
    LET found == Places(appts, appointment_id)
    IN  IF found = {}
        THEN [appointments |-> appts,
              result |-> [success |-> FALSE,
                          message |-> "Appointment not found"]]
        ELSE LET at == CHOOSE x \in found : TRUE
                 existing_appointment == appts[at[1]][at[2]]
             IN  book_appointment(appts, existing_appointment.patient_id,
                                  new_date, new_time,
                                  existing_appointment.type)

\* AppointmentSystemTool.reschedule_appointment
reschedule_appointment(appts, appointment_id, new_date, new_time) ==
    LET found == Places(appts, appointment_id)
    IN  IF found = {}
        THEN [appointments |-> appts,
              result |-> [success |-> FALSE,
                          message |-> "Appointment not found"]]
        ELSE LET at == CHOOSE x \in found : TRUE
                 existing_appointment == appts[at[1]][at[2]]
                 cancel_result == cancel_appointment(appts, appointment_id)
             IN  IF ~cancel_result.result.success THEN cancel_result
                 ELSE book_appointment(cancel_result.appointments,
                                       existing_appointment.patient_id,
                                       new_date, new_time,
                                       existing_appointment.type)

\* the strings in the order Python compares them
DateOrder == <<"2026-11-09", "2026-11-14">>

TimeOrder ==
    <<"08:00", "09:00", "09:30", "10:00", "10:30", "11:00", "11:30",
      "14:00", "14:30", "15:00", "15:30", "16:00", "16:30", "17:00">>

IndexIn(seq, x) == CHOOSE i \in 1..Len(seq) : seq[i] = x

\* the sort key f"{x['date']} {x['time']}" as a number
SortKey(apt) ==
    100 * IndexIn(DateOrder, apt.date) + IndexIn(TimeOrder, apt.time)

\* sorted(..., key=...) of a set of records with different keys
RECURSIVE SortedByKey(_)
SortedByKey(apts) ==
    IF apts = {} THEN <<>>
    ELSE LET first == CHOOSE a \in apts :
                          \A b \in apts : SortKey(a) <= SortKey(b)
         IN  <<first>> \o SortedByKey(apts \ {first})

\* AppointmentSystemTool.get_patient_appointments
get_patient_appointments(appts, patient_id) ==
    SortedByKey({apt \in UNION {Range(appts[d]) : d \in DOMAIN appts} :
                    apt.patient_id = patient_id})

AppointmentIds ==
    {appointment_id_of(p, d, t) :
        p \in Patients, d \in DOMAIN availability, t \in Times}

\* a process that holds one AppointmentSystemTool and runs no session
InitCalendar ==
    /\ node = "END"
    /\ step = "entry"
    /\ st = initial_state(0, 0)
    /\ trace = <<>>
    /\ oracle = NotAsked
    /\ InitCalendarIdle
    /\ NoConcurrency

session == <<node, step, st, trace, oracle>>

CheckAvailability ==
    \E date \in Dates, appointment_type \in AppointmentTypes :
        /\ result' = check_availability(appointments, date, appointment_type)
        /\ lastOp' = [op |-> "check_availability"]
        /\ UNCHANGED <<appointments, session, concurrency>>

Book(patient_id, date, time, appointment_type) ==
    LET r == book_appointment(appointments, patient_id, date, time,
                              appointment_type)
    IN  /\ \/ Total(appointments, DOMAIN appointments) < MaxAppointments
           \/ ~r.result.success
        /\ appointments' = r.appointments
        /\ result' = r.result
        /\ lastOp' = [op |-> "book_appointment", date |-> date, time |-> time]
        /\ UNCHANGED <<session, concurrency>>

BookAppointment ==
    \E patient_id \in Patients, date \in Dates, time \in Times,
       appointment_type \in AppointmentTypes :
        Book(patient_id, date, time, appointment_type)

Cancel(appointment_id) ==
    LET r == cancel_appointment(appointments, appointment_id)
    IN  /\ appointments' = r.appointments
        /\ result' = r.result
        /\ lastOp' = [op |-> "cancel_appointment",
                      \* the caller passes the id the preceding booking returned
                      returned |-> /\ lastOp.op = "book_appointment"
                                   /\ result.success
                                   /\ result.appointment_id = appointment_id]
        /\ UNCHANGED <<session, concurrency>>

CancelAppointment == \E appointment_id \in AppointmentIds : Cancel(appointment_id)

Reschedule(appointment_id, new_date, new_time) ==
    LET r == reschedule_appointment(appointments, appointment_id,
                                    new_date, new_time)
    IN  /\ appointments' = r.appointments
        /\ result' = r.result
        /\ lastOp' = [op |-> "reschedule_appointment",
                      date |-> new_date, time |-> new_time]
        /\ UNCHANGED <<session, concurrency>>

\* the new slot is read only when the id is found: one slot stands for all
\* of them when it is not
RescheduleAppointment ==
    \E appointment_id \in AppointmentIds :
        \E new_date \in Dates, new_time \in Times :
            /\ \/ Places(appointments, appointment_id) # {}
               \/ <<new_date, new_time>> = <<appointment_id[2], appointment_id[3]>>
            /\ Reschedule(appointment_id, new_date, new_time)

NextCalendar ==
    \/ CheckAvailability
    \/ BookAppointment
    \/ CancelAppointment
    \/ RescheduleAppointment

SpecCalendar == InitCalendar /\ [][NextCalendar]_vars

-----------------------------------------------------------------------------
(* Properties of the routing graph *)

\* a handler of the routing graph has returned and the next node, if any,
\* has not started
Returned(n) ==
    /\ trace # <<>>
    /\ trace[Len(trace)] = n
    /\ step = "entry"
    /\ node # n

ErrorRecorded(s) == s.error # None \/ s.session_error # None

\* the number of specialist handler nodes in a trace
RECURSIVE Hops(_)
Hops(t) ==
    IF t = <<>> THEN 0
    ELSE (IF t[1] \in SpecialistNodes THEN 1 ELSE 0) + Hops(Tail(t))

NoRepeat(t) == \A i, j \in 1..Len(t) : t[i] = t[j] => i = j

\* C1: when the oracle's reply names a handler outside the four specialist
\* labels, the node executed right after supervisor is the education handler
\* (virtual_assistant_agent) and supervisor is not entered again.
C1_UnknownLabelRoutesToEducation ==
    (/\ Returned("supervisor")
     /\ oracle.called /\ ~oracle.raised
     /\ oracle.agent \notin AgentNames \cup {None})
        => (node = "virtual_assistant_agent" /\ trace = <<"supervisor">>)

\* C2: when the supervisor chooses handler X and records no error, the next
\* node is X's node; the graph goes from supervisor to the terminal only
\* when the chosen handler is END or an error is recorded.
C2_ChosenHandlerIsNextNode ==
    Returned("supervisor") =>
        /\ \A n \in SpecialistNodes :
              (st.next_agent = NodeLabel(n) /\ ~ErrorRecorded(st)) => node = n
        /\ node = "END" => (st.next_agent = "END" \/ ErrorRecorded(st))

\* the text triage analysed in this run: the last message it was handed
TriageText == st.messages[2]

\* C3: when the message triage handles contains an emergency keyword,
\* triage sets urgency_level = emergency and the next node is the terminal;
\* neither the appointment nor the education handler runs.
C3_EmergencyKeywordEndsRun ==
    (/\ Len(trace) >= 2 /\ trace[2] = "triage_agent"
     /\ ~(node = "triage_agent")
     /\ TriageText.em > 0)
        => (/\ st.urgency_level = "emergency"
            /\ node = "END"
            /\ Len(trace) = 2)

\* C4: after triage returns without an error the next node is the terminal
\* for emergency, the appointment handler for urgent or moderate, the
\* education handler otherwise.
C4_RouteFromTriageByUrgency ==
    (Returned("triage_agent") /\ ~ErrorRecorded(st)) =>
        node = (CASE st.urgency_level = "emergency" -> "END"
                  [] st.urgency_level \in {"urgent", "moderate"}
                        -> "appointment_agent"
                  [] OTHER -> "virtual_assistant_agent")

\* C5: once a handler that recorded an error has returned, no specialist
\* handler node is executed: the run goes straight to a terminal.
C5_ErrorOverridesRouting ==
    (ErrorRecorded(st) /\ step = "entry") => node \notin SpecialistNodes

\* C6: a run in which some handler step recorded an error ends with
\* requires_human_review = true.
C6_ErrorEndsWithHumanReview ==
    (node = "END" /\ ErrorRecorded(st)) => st.requires_human_review

\* C7: once workflow_complete is true, no handler node (supervisor or
\* specialist) is executed.
C7_NoHandlerAfterComplete ==
    (st.workflow_complete /\ step = "entry")
        => node \notin SpecialistNodes \cup {"supervisor"}

\* C8: every run reaches the terminal; supervisor runs first or not at all,
\* no node executes twice, and at most 3 specialist handlers execute.
C8_TerminatesWithinThreeHops ==
    /\ [](/\ NoRepeat(trace)
          /\ \A i \in 2..Len(trace) : trace[i] # "supervisor"
          /\ node # "supervisor" \/ trace = <<>>
          /\ Hops(trace) <= 3)
    /\ <>(node = "END")

C8_Witness ==
    /\ node = "END"
    /\ trace = <<"supervisor", "appointment_agent",
                 "virtual_assistant_agent", "workflow_complete">>

-----------------------------------------------------------------------------
(* Properties of the appointment calendar *)

Taken(appts, date, time) ==
    \E apt \in Range(appointments_get(appts, date)) : apt.time = time

FreeFor(appts, date, time, appointment_type) ==
    time \in Range(check_availability(appts, date, appointment_type).slots)

Refused(r) ==
    /\ ~r.success
    /\ r.message = "Requested time slot is not available"

Unknown(appts, appointment_id) == Places(appts, appointment_id) = {}

\* C10: cancel_appointment with an id that matches no stored appointment
\* returns success = false and leaves the calendar as it was; the same
\* call made again returns the same result and the same calendar.
C10_CancelUnknownChangesNothing ==
    [][lastOp'.op = "cancel_appointment" =>
        \A id \in AppointmentIds :
          (Cancel(id) /\ Unknown(appointments, id)) =>
             /\ ~result'.success
             /\ result'.message = "Appointment not found"
             /\ appointments' = appointments
             /\ cancel_appointment(appointments', id) =
                   [appointments |-> appointments', result |-> result']]_vars

\* a cancellation failed on a calendar that holds appointments
C10_Witness ==
    /\ lastOp.op = "cancel_appointment"
    /\ ~result.success
    /\ result.message = "Appointment not found"
    /\ \E d \in DOMAIN appointments : Len(appointments[d]) > 0

\* the entries of the calendar that belong to patient_id
EntriesOf(appts, patient_id) ==
    {<<d, i>> \in (DOMAIN appts) \X (1..MaxAppointments + 1) :
        i <= Len(appts[d]) /\ appts[d][i].patient_id = patient_id}

EntryAt(appts, date, time, patient_id) ==
    \E apt \in Range(appointments_get(appts, date)) :
        apt.time = time /\ apt.patient_id = patient_id

\* C11 (as stated): after book_appointment and cancel_appointment(A), a
\* reschedule_appointment(A, new_date, new_time) with a free new slot leaves
\* exactly one more entry for A's patient, located at the new slot, and no
\* entry at the old slot.
C11_RescheduleAfterCancel ==
    [][(/\ lastOp.op = "cancel_appointment" /\ result.success
        /\ lastOp'.op = "reschedule_appointment") =>
        LET A == result.cancelled_appointment
            d == lastOp'.date
            t == lastOp'.time
        IN  (/\ Reschedule(A.appointment_id, d, t)
             /\ FreeFor(appointments, d, t, A.type)
             /\ <<d, t>> # <<A.date, A.time>>) =>
                /\ EntryAt(appointments', d, t, A.patient_id)
                /\ ~Taken(appointments', A.date, A.time)
                /\ Cardinality(EntriesOf(appointments', A.patient_id)) =
                      Cardinality(EntriesOf(appointments, A.patient_id)) + 1
      ]_vars

\* C11 (amended): reschedule_appointment(A, new_date, new_time) on a stored
\* appointment A, with a new slot other than A's that is free for A's type,
\* succeeds and leaves the patient with as many entries as before, one of
\* them at the new slot, and no entry at the old slot; called for an
\* appointment that was cancelled (an id no longer stored) it returns
\* "Appointment not found" and leaves the calendar unchanged.
C11_RescheduleMovesStoredEntry ==
    [][lastOp'.op = "reschedule_appointment" =>
        LET d == lastOp'.date
            t == lastOp'.time
        IN  \A id \in AppointmentIds :
              Reschedule(id, d, t) =>
                 /\ Unknown(appointments, id) =>
                       /\ ~result'.success
                       /\ result'.message = "Appointment not found"
                       /\ appointments' = appointments
                 /\ (/\ ~Unknown(appointments, id)
                     /\ <<d, t>> # <<id[2], id[3]>>
                     /\ \E at \in Places(appointments, id) :
                           FreeFor(appointments, d, t,
                                   appointments[at[1]][at[2]].type)) =>
                       /\ result'.success
                       /\ EntryAt(appointments', d, t, id[4])
                       /\ ~Taken(appointments', id[2], id[3])
                       /\ Cardinality(EntriesOf(appointments', id[4])) =
                             Cardinality(EntriesOf(appointments, id[4]))
                       /\ Total(appointments', DOMAIN appointments') =
                             Total(appointments, DOMAIN appointments)
      ]_vars

\* an appointment was moved to the slot of the last reschedule call while
\* another appointment stays stored
C11_Witness ==
    /\ lastOp.op = "reschedule_appointment"
    /\ result.success
    /\ result.appointment \in
          Range(appointments_get(appointments, lastOp.date))
    /\ result.appointment.time = lastOp.time
    /\ Total(appointments, DOMAIN appointments) = 2

-----------------------------------------------------------------------------
(* Properties of the handlers *)

EmergencyTest(s) ==
    \/ s.symptom_analysis.emergency_indicators > 0
    \/ s.combined_risk_score >= 90

UrgentTest(s) ==
    \/ s.combined_risk_score >= 70
    \/ s.symptom_analysis.severity_level = "urgent"

ModerateTest(s) ==
    \/ s.combined_risk_score >= 50
    \/ s.symptom_analysis.severity_level = "moderate"

\* C12: the urgency bucket is the first match in the order emergency,
\* urgent, moderate, routine: emergency exactly when an emergency keyword
\* matched or the score is >= 9, and each later bucket exactly when its
\* test holds and every earlier test failed.
C12_FirstMatchingBucket ==
    (node = "triage_agent"
     /\ step \in {"escalate_emergency", "provide_recommendations"}) =>
        LET u == st.urgency_level
        IN  /\ u = st.triage_result.urgency_level
            /\ (u = "emergency") = EmergencyTest(st)
            /\ (u = "urgent") = (~EmergencyTest(st) /\ UrgentTest(st))
            /\ (u = "moderate") =
                  (~EmergencyTest(st) /\ ~UrgentTest(st) /\ ModerateTest(st))
            /\ (u = "routine") =
                  (~EmergencyTest(st) /\ ~UrgentTest(st) /\ ~ModerateTest(st))

\* the urgent bucket was chosen for a text whose own severity is moderate:
\* the urgent test and the moderate test both hold
C12_Witness ==
    /\ node = "triage_agent"
    /\ step = "provide_recommendations"
    /\ st.urgency_level = "urgent"
    /\ st.symptom_analysis.severity_level = "moderate"
    /\ st.combined_risk_score >= 70

\* C13: after the appointment handler returns, the next node is the
\* education handler exactly when the booking succeeded
\* (appointment_scheduled, set with the confirmed booking result);
\* otherwise the run goes to completion and the education handler does not
\* run after the appointment handler.
C13_EducationIffBooked ==
    /\ Returned("appointment_agent") =>
          /\ st.appointment_scheduled = (st.booking_result = "confirmed")
          /\ (node = "virtual_assistant_agent") = st.appointment_scheduled
          /\ ~st.appointment_scheduled => node = "workflow_complete"
    /\ \A i, j \in 1..Len(trace) :
          (/\ i < j
           /\ trace[i] = "appointment_agent"
           /\ trace[j] = "virtual_assistant_agent") => st.appointment_scheduled

\* the appointment handler returned with a booking and education is next
C13_Witness ==
    /\ Returned("appointment_agent")
    /\ st.appointment_scheduled
    /\ node = "virtual_assistant_agent"

LeafNodes == {"virtual_assistant_agent", "clinical_docs_agent"}

\* C14: after the education handler or the clinical-docs handler returns,
\* the next node is the completion node, no specialist handler runs
\* afterwards, and the run reaches the terminal.
C14_LeafHandlersTerminate ==
    /\ [](/\ \A n \in LeafNodes : Returned(n) => node = "workflow_complete"
          /\ \A i, j \in 1..Len(trace) :
                (i < j /\ trace[i] \in LeafNodes)
                    => trace[j] \notin SpecialistNodes \cup {"supervisor"})
    /\ \A n \in LeafNodes : Returned(n) ~> (node = "END")

\* a run ended after the education handler had recorded an error
C14_Witness ==
    /\ node = "END"
    /\ ErrorRecorded(st)
    /\ \E i \in 1..Len(trace) :
          /\ trace[i] = "virtual_assistant_agent"
          /\ i + 1 = Len(trace)
          /\ trace[i + 1] = "workflow_complete"

-----------------------------------------------------------------------------
(* Properties of _parse_routing_response *)

Parsed == lastOp.op = "parse_routing_response"

Unparseable(r) ==
    \/ ~r.isText
    \/ /\ r.agent \notin AgentNames
       /\ r.urgency \notin UrgencyNames
       /\ ~r.reasoning
       /\ r.words = {}

\* C16: for every reply the parser returns a decision with all its fields,
\* agent one of the four specialist names and urgency one of EMERGENCY,
\* URGENT, ROUTINE; a reply that cannot be parsed yields the fixed
\* fallback decision (VIRTUAL_ASSISTANT, ROUTINE, confidence 0.5).
C16_ParserAlwaysReturnsDecision ==
    Parsed =>
        /\ DOMAIN result = DOMAIN default_decision
        /\ result.agent \in AgentNames
        /\ result.urgency \in UrgencyNames
        /\ result.confidence \in {5, 7, 9}
        /\ Unparseable(lastOp.response) =>
              /\ result.agent = default_decision.agent
              /\ result.urgency = default_decision.urgency
              /\ result.confidence = default_decision.confidence
              /\ result.reasoning \in {"default", "parsing error"}

\* a text with a malformed AGENT: line and no keyword got the fallback
C16_Witness ==
    /\ Parsed
    /\ lastOp.response.isText
    /\ lastOp.response.agent = "BILLING_AGENT"
    /\ lastOp.response.urgency = "HIGH"
    /\ Unparseable(lastOp.response)
    /\ result = default_decision

-----------------------------------------------------------------------------
(* Properties of the session state *)

\* C17: for an empty patient message the supervisor produces an error
\* result: next_agent = END, requires_human_review = true, and the run
\* ends without executing any specialist handler.
C17_EmptyMessageIsError ==
    (Returned("supervisor") /\ st.messages[1] = EmptyMessage) =>
        /\ st.next_agent = "END"
        /\ st.requires_human_review
        /\ node = "END"
        /\ Hops(trace) = 0

\* C18: requires_human_review, workflow_complete and escalation_needed are
\* monotonic: once one of them is true, no later step of the run (internal
\* step, error handler or completion node) makes it false again.
C18_FlagsMonotonic ==
    [][/\ st.requires_human_review => st'.requires_human_review
       /\ st.workflow_complete => st'.workflow_complete
       /\ st.escalation_needed => st'.escalation_needed]_vars

\* escalation_needed was raised by one step of the triage handler, the two
\* other flags by a later one, and the run went on to its end
C18_Witness ==
    /\ node = "END"
    /\ trace # <<>>
    /\ trace[Len(trace)] = "triage_agent"
    /\ st.requires_human_review
    /\ st.workflow_complete
    /\ st.escalation_needed

\* C19: each handler result field (triage_result, appointment_data,
\* clinical_context, virtual_assistant_context) is write-once: after it
\* has been set, every later handler and engine step leaves it unchanged.
C19_ResultFieldsWriteOnce ==
    [][/\ st.triage_result.set => st'.triage_result = st.triage_result
       /\ st.appointment_data # None =>
              st'.appointment_data = st.appointment_data
       /\ st.clinical_context # None =>
              st'.clinical_context = st.clinical_context
       /\ st.virtual_assistant_context # None =>
              st'.virtual_assistant_context = st.virtual_assistant_context]_vars

\* the triage handler set triage_result, and a later handler ran to the end
C19_Witness ==
    /\ node = "END"
    /\ st.triage_result.set
    /\ \E i \in 1..Len(trace) :
          /\ trace[i] = "triage_agent"
          /\ i < Len(trace)

IsPrefix(a, b) ==
    /\ Len(a) <= Len(b)
    /\ \A i \in 1..Len(a) : b[i] = a[i]

\* C20: messages and tools_used are append-only: after every step of a
\* run (internal steps, error handlers and the completion node included)
\* the previous sequence is a prefix of the new one.
C20_MessagesAndToolsAppendOnly ==
    [][/\ IsPrefix(st.messages, st'.messages)
       /\ IsPrefix(st.tools_used, st'.tools_used)]_vars

\* a run that ended after an error handler and the completion node, with
\* both sequences grown
C20_Witness ==
    /\ node = "END"
    /\ ErrorRecorded(st)
    /\ st.workflow_complete
    /\ Len(st.messages) >= 4
    /\ Len(st.tools_used) >= 2

-----------------------------------------------------------------------------
(* Failures inside the handlers *)

GraphNodes == SpecialistNodes \cup {"supervisor", "workflow_complete", "END"}

\* the first step of the education handler fails on a state without a
\* triage result
AssistantEntryFails ==
    node = "virtual_assistant_agent" /\ step = "entry" /\ ~st.triage_result.set

\* C21: every handler's entry point returns an updated state for every
\* input state and every failure of the oracle or of a tool: the failure
\* becomes a field of the returned state (error, or session_context.error
\* for the supervisor) and control stays in the graph; no exception
\* reaches the routing engine.
C21_HandlersAbsorbFailures ==
    [][/\ node' \in GraphNodes
       /\ (node = "supervisor" /\ oracle'.raised) =>
              /\ st'.session_error # None
              /\ IsPrefix(st.messages, st'.messages)
       /\ (node = "triage_agent" /\ step = "entry"
           /\ \E llm_text \in LlmAssessments :
                  st' = analyze_symptoms_node(st, TRUE, llm_text)) =>
              /\ st'.error # None
              /\ node' = "triage_agent" /\ step' = "handle_error"
       /\ (node = "appointment_agent" /\ step = "entry"
           /\ st' = analyze_appointment_request_node(st, TRUE)) =>
              /\ st'.error # None
              /\ node' = "appointment_agent" /\ step' = "handle_error"
       /\ AssistantEntryFails =>
              /\ st'.error # None
              /\ st'.workflow_complete
              /\ Len(st'.messages) = Len(st.messages) + 1
              /\ node' = "workflow_complete"
       /\ (node = "clinical_docs_agent" /\ step = "generate_assessment"
           /\ st' = generate_assessment_node(st, TRUE)) =>
              /\ st'.error # None
              /\ node' = "clinical_docs_agent" /\ step' = "handle_error"]_vars

\* the education handler was entered without a triage result, its first
\* step failed, and the run went on to its end with the error recorded
C21_Witness ==
    /\ node = "END"
    /\ Len(trace) >= 2
    /\ trace[Len(trace) - 1] = "virtual_assistant_agent"
    /\ ~st.triage_result.set
    /\ st.error = "Assistant workflow execution failed"

-----------------------------------------------------------------------------
(* End-to-end scenarios *)

\* the patient's message of this run
PatientMessage == st.messages[1]

\* C22: whenever a patient message containing an emergency keyword is
\* routed by the supervisor to triage, the run ends at the terminal right
\* after triage and the response has requires_follow_up = true
\* (requires_human_review) and emergency_alert = true (escalation_needed).
C22_EmergencyMessageEndsWithAlert ==
    (/\ Len(trace) >= 2 /\ trace[2] = "triage_agent"
     /\ ~(node = "triage_agent")
     /\ PatientMessage.em > 0)
        => /\ Len(trace) = 2
           /\ node = "END"
           /\ st.requires_human_review
           /\ st.escalation_needed

\* an exception was caught in a step of the appointment handler
RaisedInAppointment(s) ==
    s.error \in {"Request analysis failed", "Availability check failed",
                 "Appointment booking failed", "Confirmation sending failed"}

SlotOffers == {"IMMEDIATE", "Within 24 hours", "Within 1-2 weeks"}

\* C23: for a request that the supervisor routes to the appointment
\* handler, the handler returns a slot offer whatever text the oracle
\* returned for the request analysis, and the response's follow-up flag
\* (requires_human_review) keeps its default value false.
C23_AppointmentAlwaysOffersSlot ==
    (/\ Returned("appointment_agent")
     /\ trace = <<"supervisor", "appointment_agent">>
     /\ st.urgency_level \in UrgencyNames
     /\ ~RaisedInAppointment(st))
        => /\ st.error = None
           /\ st.availability_check.set
           /\ st.availability_check.available
           /\ st.availability_check.next_slot \in SlotOffers
           /\ st.appointment_scheduled
           /\ ~st.requires_human_review

\* the supervisor handed a request to the appointment handler, which
\* returned with a slot offer
C23_Witness ==
    /\ Returned("appointment_agent")
    /\ trace = <<"supervisor", "appointment_agent">>
    /\ st.urgency_level \in UrgencyNames
    /\ st.appointment_analysis.set
    /\ st.availability_check.next_slot \in SlotOffers
    /\ ~st.requires_human_review

\* C24: for every urgency value in the session state (unset and
\* unrecognised values included) and every message, the education handler
\* selects exactly one canned content block, never none:
\* emergency_recognition for emergency or urgent, symptom_monitoring for
\* moderate, heart_healthy_lifestyle otherwise.
C24_EducationSelectsOneBlock ==
    Returned("virtual_assistant_agent") =>
        /\ st.education_provided \in EducationTopics
        /\ st.education_provided = education_focus(st.urgency_level)

-----------------------------------------------------------------------------
(* The final-report step of the documentation handler on every             *)
(* combination of present and absent upstream outputs                      *)

InitReport ==
    /\ node = "clinical_docs_agent"
    /\ step = "compile_final_report"
    /\ \E em0 \in 0..MaxEmergencyKw, ur0 \in 0..MaxUrgentKw,
          narrative, plan \in BOOLEAN,
          impression \in {None, clinical_assessment_tool("routine")},
          discharge \in {None, discharge_summary_tool("routine")},
          err \in {None, "Discharge summary generation failed"} :
          st = [gather_session_data_node(
                    Handoff("CLINICAL_DOCS", em0, ur0, 0, 0, "ROUTINE"))
                  EXCEPT !.assessment_narrative = narrative,
                         !.clinical_assessment = impression,
                         !.treatment_plan_text = plan,
                         !.discharge_summary = discharge,
                         !.error = err]
    /\ trace = <<"supervisor", "clinical_docs_agent">>
    /\ oracle = [called |-> TRUE, raised |-> FALSE, agent |-> "CLINICAL_DOCS"]
    /\ InitCalendarIdle
    /\ NoConcurrency

NextReport ==
    \/ DocsCompileFinalReport
    \/ CompletionNode

SpecReport == InitReport /\ [][NextReport]_vars

\* C25: the final-report step of the clinical-docs handler produces a
\* report for every session state: each absent upstream output (assessment
\* narrative, clinical impression, treatment plan text, discharge status)
\* is replaced by its fixed placeholder, and the step neither fails nor
\* records an error because of the absence.
C25_FinalReportUsesPlaceholders ==
    [][(node = "clinical_docs_agent" /\ step = "compile_final_report") =>
          LET r == st'.final_clinical_report
          IN  /\ r.set
              /\ r.assessment = IF st.assessment_narrative THEN "narrative"
                                ELSE "Assessment not available"
              /\ r.impression = IF st.clinical_assessment # None
                                THEN st.clinical_assessment
                                ELSE "Assessment pending"
              /\ r.plan = IF st.treatment_plan_text THEN "plan"
                          ELSE "Plan pending"
              /\ r.discharge_status = IF st.discharge_summary # None
                                      THEN st.discharge_summary
                                      ELSE "Status pending"
              /\ st'.error = st.error
              /\ st'.workflow_complete
              /\ node' = "workflow_complete"]_vars

\* a report compiled with none of the four upstream outputs present
C25_Witness ==
    /\ node = "END"
    /\ st.error = None
    /\ st.final_clinical_report =
          [set |-> TRUE, assessment |-> "Assessment not available",
           impression |-> "Assessment pending", plan |-> "Plan pending",
           discharge_status |-> "Status pending"]

-----------------------------------------------------------------------------
(* process_patient_query called once with a PatientQuery object: lastOp     *)
(* holds the call and its argument, result what the caller gets            *)

\* the objects of class PatientQuery (models/schemas.py): a record whose
\* domain is the set of attributes of the object; query_text is given by
\* the message built from it
PatientQueries ==
    {[patient_id |-> p, query_text |-> m, query_type |-> q,
      timestamp |-> "now"] :
        p \in Patients,
        m \in {HumanMessage(em, ur) : em \in 0..MaxEmergencyKw,
                                      ur \in 0..MaxUrgentKw}
              \cup {EmptyMessage},
        q \in {None, "triage", "appointment", "education"}}

\* reading obj.name raises AttributeError unless the object has the attribute
HasAttr(obj, name) == name \in DOMAIN obj

\* the attributes process_patient_query reads while it builds initial_state,
\* before its try statement
AttributesRead == {"query", "conversation_id", "patient_id"}

InitQuery ==
    /\ node = "END"
    /\ step = "entry"
    /\ st = initial_state(0, 0)
    /\ trace = <<>>
    /\ oracle = NotAsked
    /\ InitCalendarIdle
    /\ NoConcurrency

ProcessPatientQuery ==
    \E patient_query \in PatientQueries :
        /\ lastOp = Idle
        /\ lastOp' = [op |-> "process_patient_query",
                      patient_query |-> patient_query]
        /\ IF \A a \in AttributesRead : HasAttr(patient_query, a)
           THEN /\ st' = [initial_state(0, 0) EXCEPT
                            !.messages = <<patient_query.query>>]
                /\ node' = "supervisor"
                /\ result' = [raised |-> FALSE, exception |-> None]
           ELSE /\ result' = [raised |-> TRUE, exception |-> "AttributeError"]
                /\ UNCHANGED <<st, node>>
        /\ UNCHANGED <<appointments, step, trace, oracle, concurrency>>

NextQuery == ProcessPatientQuery

SpecQuery == InitQuery /\ [][NextQuery]_vars

\* C26: process_patient_query never raises: a failure during a session run
\* ends the run with a response that carries requires_human_review = true
\* and an error message, and the workflow stays able to process later
\* queries.
C26_ProcessPatientQueryNeverRaises ==
    lastOp.op = "process_patient_query" => ~result.raised

-----------------------------------------------------------------------------
(* Two chat requests served concurrently by the one CardiologyWorkflow     *)
(* object of main.py.  The variables node .. oracle are the run that       *)
(* executes; suspended holds the run that waits.  Switch hands the         *)
(* processor from one run to the other between two handler steps.          *)
(***************************************************************************)

RunContext ==
    [node |-> node, step |-> step, st |-> st, trace |-> trace,
     oracle |-> oracle]

\* the runs as process_patient_query starts them, and as the supervisor
\* hands them to a specialist handler
StartContexts ==
    {[node |-> "supervisor", step |-> "entry", st |-> initial_state(0, 0),
      trace |-> <<>>, oracle |-> NotAsked]}
    \cup
    {[node |-> n, step |-> "entry",
      st |-> Handoff(NodeLabel(n), 0, 0, em1, 0, "ROUTINE"),
      trace |-> <<"supervisor">>,
      oracle |-> [called |-> TRUE, raised |-> FALSE, agent |-> NodeLabel(n)]] :
        n \in SpecialistNodes, em1 \in 0..1}

\* a session state whose tools_used list is one object shared by the runs
resume_shared_tools_used(running, waiting) ==
    [waiting EXCEPT !.st.tools_used = running.st.tools_used]

\* what a run finds when it goes on: initial_state is a dict built by each
\* call of process_patient_query, with list objects of its own, and every
\* node returns a new dict, so the run finds the state it left
resume(running, waiting) == waiting

InitConcurrent ==
    /\ \E a, b \in StartContexts :
          /\ node = a.node
          /\ step = a.step
          /\ st = a.st
          /\ trace = a.trace
          /\ oracle = a.oracle
          /\ suspended = b
    /\ InitCalendarIdle
    /\ callers = <<>>

Switch ==
    /\ suspended # NoRun
    /\ LET mine == RunContext
           theirs == resume(mine, suspended)
       IN  /\ node' = theirs.node
           /\ step' = theirs.step
           /\ st' = theirs.st
           /\ trace' = theirs.trace
           /\ oracle' = theirs.oracle
           /\ suspended' = mine
    /\ UNCHANGED <<calendar, callers>>

NextConcurrent == NextGraph \/ Switch

SpecConcurrent == InitConcurrent /\ [][NextConcurrent]_vars

-----------------------------------------------------------------------------
(* book_appointment called from two threads on one AppointmentSystemTool.  *)
(* The method takes no lock, so the threads can alternate between its      *)
(* statements: the availability check, the test "date not in               *)
(* self.appointments", the assignment of the empty list, and the append.   *)
(* callers[i] is the frame of thread i's call.                             *)
(***************************************************************************)

Threads == {1, 2}

NoCall ==
    [pc |-> "idle", patient_id |-> None, date |-> None, time |-> None,
     type |-> None, absent |-> FALSE, result |-> Idle]

InitThreads ==
    /\ node = "END"
    /\ step = "entry"
    /\ st = initial_state(0, 0)
    /\ trace = <<>>
    /\ oracle = NotAsked
    /\ InitCalendarIdle
    /\ suspended = NoRun
    /\ callers = [i \in Threads |-> NoCall]

\* an append that looks at the slot once more and refuses a taken one
append_appointment_if_free(appts, appointment) ==
    IF \E apt \in Range(appointments_get(appts, appointment.date)) :
          apt.time = appointment.time
    THEN [appointments |-> appts,
          result |-> [success |-> FALSE,
                      message |-> "Requested time slot is not available",
                      alternative_slots |-> <<>>]]
    ELSE [appointments |->
              (appointment.date :>
                   Append(appointments_get(appts, appointment.date),
                          appointment)) @@ appts,
          result |-> [success |-> TRUE,
                      appointment_id |-> appointment.appointment_id,
                      appointment |-> appointment,
                      message |-> "Appointment confirmed"]]

\* self.appointments[date].append(appointment) and the return statement
append_appointment(appts, appointment) ==
    [appointments |->
         (appointment.date :>
              Append(appointments_get(appts, appointment.date), appointment))
             @@ appts,
     result |-> [success |-> TRUE,
                 appointment_id |-> appointment.appointment_id,
                 appointment |-> appointment,
                 message |-> "Appointment confirmed"]]

\* availability = self.check_availability(...) and the test of its result
ThreadCheck(i) ==
    \E patient_id \in Patients, date \in Dates, time \in Times,
       appointment_type \in AppointmentTypes :
        LET a == check_availability(appointments, date, appointment_type)
            frame == [NoCall EXCEPT !.patient_id = patient_id,
                                    !.date = date, !.time = time,
                                    !.type = appointment_type]
        IN  /\ callers[i].pc = "idle"
            /\ callers' =
                 [callers EXCEPT ![i] =
                    IF ~a.available \/ time \notin Range(a.slots)
                    THEN [frame EXCEPT
                            !.pc = "done",
                            !.result =
                               [success |-> FALSE,
                                message |->
                                  "Requested time slot is not available",
                                alternative_slots |-> FirstN(a.slots, 3)]]
                    ELSE [frame EXCEPT !.pc = "checked"]]
            /\ UNCHANGED <<session, calendar, suspended>>

\* if date not in self.appointments
ThreadTestDate(i) ==
    /\ callers[i].pc = "checked"
    /\ callers' = [callers EXCEPT
                     ![i].pc = "tested",
                     ![i].absent = (callers[i].date \notin DOMAIN appointments)]
    /\ UNCHANGED <<session, calendar, suspended>>

\* self.appointments[date] = []
ThreadNewList(i) ==
    /\ callers[i].pc = "tested"
    /\ appointments' = IF callers[i].absent
                       THEN (callers[i].date :> <<>>) @@ appointments
                       ELSE appointments
    /\ callers' = [callers EXCEPT ![i].pc = "ready"]
    /\ UNCHANGED <<session, result, lastOp, suspended>>

ThreadAppend(i) ==
    LET c == callers[i]
        r == append_appointment(appointments,
                                new_appointment(c.patient_id, c.date, c.time,
                                                c.type))
    IN  /\ c.pc = "ready"
        /\ appointments' = r.appointments
        /\ callers' = [callers EXCEPT ![i].pc = "done",
                                      ![i].result = r.result]
        /\ UNCHANGED <<session, result, lastOp, suspended>>

NextThreads ==
    \E i \in Threads :
        \/ ThreadCheck(i)
        \/ ThreadTestDate(i)
        \/ ThreadNewList(i)
        \/ ThreadAppend(i)

SpecThreads == InitThreads /\ [][NextThreads]_vars

\* the number of calendar entries for a slot
SlotEntries(appts, date, time) ==
    Cardinality({k \in 1..Len(appointments_get(appts, date)) :
                    appts[date][k].time = time})

\* thread j has stored its appointment for a slot for which thread i had
\* passed the availability check before: the two calls overlap between
\* check and append
Overlap(i, j) ==
    /\ i # j
    /\ callers[i].pc \in {"checked", "tested", "ready"}
    /\ callers[j].pc = "done"
    /\ callers[j].result.success
    /\ callers[i].date = callers[j].date
    /\ callers[i].time = callers[j].time

\* C28 (as stated): when two book_appointment calls for the same free
\* (date, time) interleave between the availability check and the append,
\* both return success = true and the calendar holds two confirmed entries
\* for that slot.
C28_OverlapGivesTwoEntries ==
    [][\A i, j \in Threads :
          (Overlap(i, j) /\ callers'[i].pc = "done") =>
              /\ callers'[i].result.success
              /\ SlotEntries(appointments', callers[i].date,
                             callers[i].time) = 2]_vars

\* C28 (amended): when two book_appointment calls for the same free
\* (date, time) interleave between the availability check and the append,
\* both return success = true; the calendar then holds two confirmed
\* entries for that slot, or one when the later call had found the date
\* without a list and its new empty list replaced the list that held the
\* earlier entry.
C28_OverlapGivesTwoSuccesses ==
    [][\A i, j \in Threads :
          (Overlap(i, j) /\ callers'[i].pc = "done") =>
              /\ callers'[i].result.success
              /\ SlotEntries(appointments', callers[i].date,
                             callers[i].time) \in {1, 2}
              /\ SlotEntries(appointments', callers[i].date,
                             callers[i].time) = 1 => callers[i].absent]_vars

\* both calls returned success for the same slot and the calendar holds
\* two entries for it
C28_Witness ==
    /\ callers # <<>>
    /\ \A i \in Threads : callers[i].pc = "done" /\ callers[i].result.success
    /\ callers[1].date = callers[2].date
    /\ callers[1].time = callers[2].time
    /\ SlotEntries(appointments, callers[1].date, callers[1].time) = 2

-----------------------------------------------------------------------------
(* Two runs of the triage handler on the same message.  The language       *)
(* model's answer to the triage prompt is stored as clinical_assessment    *)
(* and read by no later triage step.                                       *)
(***************************************************************************)

\* run c has come back from the triage handler and no step of it failed
TriageReturned(c) ==
    /\ c.trace # <<>>
    /\ c.trace[Len(c.trace)] = "triage_agent"
    /\ c.node # "triage_agent"
    /\ c.st.triage_result.set
    /\ ~ErrorRecorded(c.st)

\* the messages the triage handler of run c was entered with
TriageInput(c) == SubSeq(c.st.messages, 1, 2)

\* C29: two runs of the triage handler on the same message with the same
\* risk data, in which no step fails, end with the same urgency_level, the
\* same severity score and the same next handler, whatever text the
\* language model returned in either run.
C29_TriageIgnoresLlmText ==
    (/\ suspended # NoRun
     /\ TriageReturned(RunContext)
     /\ TriageReturned(suspended)
     /\ TriageInput(RunContext) = TriageInput(suspended)) =>
        /\ st.urgency_level = suspended.st.urgency_level
        /\ st.triage_result = suspended.st.triage_result
        /\ st.next_agent = suspended.st.next_agent
        /\ node = suspended.node

\* both runs triaged the same message and the model answered differently
C29_Witness ==
    /\ suspended # NoRun
    /\ TriageReturned(RunContext)
    /\ TriageReturned(suspended)
    /\ TriageInput(RunContext) = TriageInput(suspended)
    /\ st.clinical_assessment # suspended.st.clinical_assessment
    /\ st.clinical_assessment \in LlmAssessments
    /\ suspended.st.clinical_assessment \in LlmAssessments

-----------------------------------------------------------------------------
(* The slot offer against the session's urgency bucket.  The supervisor    *)
(* writes the bucket in upper case, triage in lower case.                  *)
(***************************************************************************)

\* the slot the appointment handler is to offer for an urgency bucket,
\* whichever handler wrote it
SlotForBucket(urgency_level) ==
    IF urgency_level \in {"EMERGENCY", "emergency"} THEN "IMMEDIATE"
    ELSE IF urgency_level \in {"URGENT", "urgent"} THEN "Within 24 hours"
    ELSE "Within 1-2 weeks"

\* C30: the slot the appointment handler offers is determined by the
\* session's urgency bucket: immediate for emergency, within 24 hours for
\* urgent, within 1-2 weeks otherwise, whether the supervisor's
\* classification or triage set the urgency before the handler ran.
C30_SlotFollowsUrgencyBucket ==
    (/\ Returned("appointment_agent")
     /\ st.availability_check.set) =>
        st.availability_check.next_slot = SlotForBucket(st.urgency_level)

-----------------------------------------------------------------------------
(* The vocabulary of urgency_level                                         *)

\* the values _route_from_triage, check_availability_tool and the other
\* handlers compare urgency_level with, and None for the unset field
UrgencyVocabulary == {None, "emergency", "urgent", "moderate", "routine"}

\* C31: in every reachable session state urgency_level is one of
\* emergency, urgent, moderate, routine or unset, the vocabulary the routing
\* functions and the handlers test against.
C31_UrgencyInVocabulary == st.urgency_level \in UrgencyVocabulary

-----------------------------------------------------------------------------
(* The calendar after sequential calls                                     *)

\* every stored appointment, whatever date list holds it
Stored(appts) == UNION {Range(appts[d]) : d \in DOMAIN appts}

\* no (date, time) and no appointment_id is held by two entries of appts
OneEntryPerSlot(appts) ==
    /\ \A d \in DOMAIN appts :
          \A i, j \in 1..Len(appts[d]) :
             (/\ appts[d][i].date = appts[d][j].date
              /\ appts[d][i].time = appts[d][j].time) => i = j
    /\ \A d1, d2 \in DOMAIN appts :
          \A i \in 1..Len(appts[d1]), j \in 1..Len(appts[d2]) :
             /\ appts[d1][i].date = d1
             /\ appts[d1][i].appointment_id = appts[d2][j].appointment_id
                   => (d1 = d2 /\ i = j)

\* C32: after any sequence of book_appointment, cancel_appointment and
\* reschedule_appointment calls made one after the other on one
\* AppointmentSystemTool, no two stored appointments have the same
\* (date, time), and so no two have the same appointment_id.
C32_NoTwoAppointmentsShareSlot == OneEntryPerSlot(appointments)

\* two patients hold two slots of one day, and a booking of one of these
\* slots has just been refused
C32_Witness ==
    /\ lastOp.op = "book_appointment"
    /\ Refused(result)
    /\ Taken(appointments, lastOp.date, lastOp.time)
    /\ Len(appointments_get(appointments, lastOp.date)) = 2
    /\ \E a, b \in Stored(appointments) : a.patient_id # b.patient_id

\* C33: reschedule_appointment is all-or-nothing: when the new slot cannot
\* be booked (taken, not a slot of the day for the appointment's type, or a
\* date outside the availability table) it returns success = false and
\* every appointment stored before the call, the original one included, is
\* still stored at its slot.
C33_RescheduleIsAllOrNothing ==
    [][(/\ lastOp'.op = "reschedule_appointment"
        /\ Refused(result')) =>
           Stored(appointments) \subseteq Stored(appointments')]_vars

\* what the interface shows of a calendar: the appointments of every
\* patient and the availability of every date for every type
Observed(appts) ==
    [patients |-> [p \in Patients |-> get_patient_appointments(appts, p)],
     free |-> [x \in Dates \X (AppointmentTypes \cup {"emergency"}) |->
                  check_availability(appts, x[1], x[2])]]

\* the calendars from which the booking just made gives the present one
BeforeBooking ==
    LET d == lastOp.date
        rest == SubSeq(appointments[d], 1, Len(appointments[d]) - 1)
        without == [x \in DOMAIN appointments \ {d} |-> appointments[x]]
    IN  {(d :> rest) @@ without} \cup (IF rest = <<>> THEN {without} ELSE {})

\* C34: a successful book_appointment followed by cancel_appointment of
\* the appointment_id it returned restores the calendar as the interface
\* shows it: get_patient_appointments for every patient and
\* check_availability for every date and type return what they returned
\* before the booking.
C34_BookThenCancelRestores ==
    [][(/\ lastOp.op = "book_appointment"
        /\ result.success
        /\ lastOp'.op = "cancel_appointment"
        /\ lastOp'.returned) =>
           /\ result'.success
           /\ \A before \in BeforeBooking :
                 Observed(appointments') = Observed(before)]_vars

\* the id a booking returned has been cancelled while another appointment
\* stays stored
C34_Witness ==
    /\ lastOp.op = "cancel_appointment"
    /\ lastOp.returned
    /\ result.success
    /\ Stored(appointments) # {}
    /\ result.cancelled_appointment \notin Stored(appointments)

-----------------------------------------------------------------------------
(* Triage outcomes                                                         *)

\* C35: a message that matches two or more urgent keywords and no
\* emergency keyword (keyword severity level urgent, severity score 7 or 8,
\* risk multiplier 6.5 / 5) is triaged with urgency_level = urgent, not
\* emergency, and the run continues to the appointment handler.
C35_UrgentKeywordsGiveUrgent ==
    (/\ Returned("triage_agent")
     /\ ~ErrorRecorded(st)
     /\ st.triage_result.set
     /\ st.symptom_analysis.severity_level = "urgent"
     /\ st.symptom_analysis.emergency_indicators = 0) =>
        /\ st.urgency_level = "urgent"
        /\ node = "appointment_agent"

\* C36: every run that reaches the terminal node ends with
\* workflow_complete = true in its final state, on every path: normal
\* completion, the emergency end after triage, and the supervisor's direct
\* end, its error result included.
C36_TerminalStateIsComplete ==
    node = "END" => st.workflow_complete

Escalated(s) == "emergency_escalation_tool" \in Range(s.tools_used)

\* C37: within the triage handler the emergency escalation step runs if
\* and only if the determined urgency is emergency; when it runs without a
\* failure the returned state has requires_human_review = true,
\* next_agent = END and emergency_escalation_tool in tools_used; it never
\* runs for urgent, moderate or routine.
C37_EscalationIffEmergency ==
    /\ (node = "triage_agent" /\ step = "escalate_emergency") =>
          /\ st.triage_result.set
          /\ st.triage_result.urgency_level = "emergency"
    /\ (node = "triage_agent" /\ step = "provide_recommendations") =>
          /\ st.triage_result.set
          /\ st.triage_result.urgency_level \in {"urgent", "moderate", "routine"}
    /\ (Returned("triage_agent") /\ st.triage_result.set
        /\ ~ErrorRecorded(st)) =>
          IF st.triage_result.urgency_level = "emergency"
          THEN /\ Escalated(st)
               /\ st.requires_human_review
               /\ st.next_agent = "END"
          ELSE ~Escalated(st)

\* triage came back from an escalation it made for the score alone
C37_Witness ==
    /\ Returned("triage_agent")
    /\ ~ErrorRecorded(st)
    /\ st.triage_result.urgency_level = "emergency"
    /\ st.triage_result.emergency_indicators = 0
    /\ Escalated(st)
    /\ st.requires_human_review
    /\ st.next_agent = "END"

-----------------------------------------------------------------------------
(* The node functions of the compiled graph.                               *)
(*                                                                         *)
(* The body of class CardiologyWorkflow defines _supervisor_node,          *)
(* _triage_node, _appointment_node, _virtual_assistant_node and            *)
(* _clinical_docs_node twice.  A class body is executed from top to        *)
(* bottom and each def binds its name anew, so when __init__ builds the    *)
(* graph, self._supervisor_node is the function of the last def.  The      *)
(* later functions call methods and read attributes of the first version   *)
(* of the agents; a missing one raises AttributeError.                     *)
(***************************************************************************)

\* the defs of the class body, in source order, by name and first line
ClassBody ==
    <<[name |-> "__init__", line |-> 19],
      [name |-> "_build_enhanced_workflow", line |-> 30],
      [name |-> "_supervisor_node", line |-> 89],
      [name |-> "_triage_node", line |-> 93],
      [name |-> "_appointment_node", line |-> 97],
      [name |-> "_virtual_assistant_node", line |-> 101],
      [name |-> "_clinical_docs_node", line |-> 105],
      [name |-> "_completion_node", line |-> 109],
      [name |-> "_route_from_supervisor", line |-> 138],
      [name |-> "_route_from_triage", line |-> 146],
      [name |-> "_route_from_appointment", line |-> 160],
      [name |-> "_generate_final_recommendations", line |-> 166],
      [name |-> "process_patient_query", line |-> 197],
      [name |-> "get_workflow_visualization", line |-> 269],
      [name |-> "_supervisor_node", line |-> 332],
      [name |-> "_triage_node", line |-> 350],
      [name |-> "_appointment_node", line |-> 382],
      [name |-> "_virtual_assistant_node", line |-> 407],
      [name |-> "_clinical_docs_node", line |-> 425],
      [name |-> "_route_to_agent", line |-> 453],
      [name |-> "_should_continue", line |-> 457],
      [name |-> "process_query", line |-> 472],
      [name |-> "_format_response", line |-> 493],
      [name |-> "run_triage_assessment", line |-> 568],
      [name |-> "handle_appointment_request", line |-> 573],
      [name |-> "get_patient_appointments", line |-> 578],
      [name |-> "get_patient_info", line |-> 582]>>

\* the def an attribute lookup self.<name> finds: the last one of the body
Bound(name) ==
    LET defs == {i \in 1..Len(ClassBody) : ClassBody[i].name = name}
        last == CHOOSE i \in defs : \A j \in defs : j <= i
    IN  ClassBody[last].line

\* _build_enhanced_workflow: add_node(node, self.<method>)
NodeMethod ==
    [supervisor |-> "_supervisor_node",
     triage_agent |-> "_triage_node",
     appointment_agent |-> "_appointment_node",
     virtual_assistant_agent |-> "_virtual_assistant_node",
     clinical_docs_agent |-> "_clinical_docs_node"]

\* the defs that return self.<agent>(state)
CallsAgent == {89, 93, 97, 101, 105}

\* the attributes of a SupervisorAgent object: what __init__ assigns and
\* what the class defines
SupervisorAgentAttributes ==
    {"llm", "name", "prompt", "__init__", "__call__",
     "_parse_routing_response", "_create_error_response"}

\* process_query: the state it hands to the compiled graph; the keys it
\* leaves out read as their defaults
process_query_state(patient_query) ==
    [initial_state(0, 0) EXCEPT !.messages = <<patient_query.query_text>>,
                                !.current_agent = "supervisor"]

\* a CardiologyWorkflow on which no call runs yet (process_query is
\* called next), or the compiled graph entered with the state
\* process_patient_query builds
InitCompiled == InitQuery \/ Init

\* process_query, called by run_triage_assessment and
\* handle_appointment_request with a PatientQuery, up to ainvoke
ProcessQuery ==
    \E patient_query \in PatientQueries :
        /\ lastOp = Idle
        /\ node = "END"
        /\ lastOp' = [op |-> "process_query", patient_query |-> patient_query]
        /\ st' = process_query_state(patient_query)
        /\ node' = "supervisor"
        /\ UNCHANGED <<appointments, result, step, trace, oracle, concurrency>>

\* the supervisor node of the compiled graph: the function self._supervisor_node
\* is bound to.  The def of line 332 calls self.supervisor.route_query.
CompiledSupervisorNode ==
    /\ result = Idle
    /\ IF Bound(NodeMethod["supervisor"]) \in CallsAgent
       THEN SupervisorNode
       ELSE /\ node = "supervisor"
            /\ IF "route_query" \in SupervisorAgentAttributes
               THEN /\ \E next_agent \in AgentNames :
                          st' = [st EXCEPT !.current_agent = next_agent]
                    /\ result' = result
                    /\ node' = route_from_supervisor(st')
               ELSE \* the exception leaves ainvoke: the run is at no node
                    /\ st' = st
                    /\ result' = [raised |-> TRUE,
                                  exception |-> "AttributeError"]
                    /\ node' = None
            /\ trace' = Append(trace, "supervisor")
            /\ UNCHANGED <<appointments, lastOp, step, oracle, concurrency>>

NextCompiled == ProcessQuery \/ CompiledSupervisorNode

SpecCompiled == InitCompiled /\ [][NextCompiled]_vars

\* ainvoke runs the graph for as long as a node is to be executed
SpecCompiledFair == SpecCompiled /\ WF_vars(NextCompiled)

\* C38: each node of the compiled routing graph executes the agent object
\* registered for it: when the supervisor node has run, SupervisorAgent's
\* __call__ was applied to the session state (no exception left the node,
\* current_agent is supervisor and next_agent is set), as the first
\* definitions of the node functions describe.
C38_NodesRunRegisteredAgents ==
    trace # <<>> =>
        /\ result = Idle
        /\ st.current_agent = "supervisor"
        /\ st.next_agent # None

====
